---- MODULE Spec2Model ----
(***************************************************************************)
(* A model of the local persistence layer of the recipe application:       *)
(* the draft / favorites / review store kept in localStorage               *)
(* (src/src/hooks/useLocalStorage.js), the favorites hooks                 *)
(* (src/src/hooks/useFavorites.js), the review service                     *)
(* (src/unnamed/part_002) and the axios client (src/unnamed/part_001).     *)
(***************************************************************************)
EXTENDS Integers, Sequences, FiniteSets, TLC

VARIABLES
    store,      \* localStorage: key -> stored string (JNull when the key is absent)
    available,  \* FALSE when every localStorage access throws (storage disabled)
    now,        \* the wall clock read by Date.now() / new Date()
    ctx,        \* per browsing context: the toggleFavorite call in progress
    ui          \* the state of the mounted page components (React state)

vars == <<store, available, now, ctx, ui>>

(***************************************************************************)
(* Bounds of the model.                                                    *)
(***************************************************************************)
MaxClock == 1       \* the clock advances at most this many milliseconds
MaxItems == 1       \* a record is added while the whole store holds fewer than this
MaxFavs == 3        \* a favorite is added while the list is shorter than this
MaxReviews == 2     \* a review is added while the collection is shorter than this

Epoch == 100        \* the value of Date.now() in the initial state

(***************************************************************************)
(* JavaScript values.  Every value carries its type tag, so that strict    *)
(* equality (===) is equality of the tagged values and truthiness can be   *)
(* computed: undefined, null, booleans, numbers, strings, arrays, objects. *)
(***************************************************************************)
Undef == [t |-> "undef"]
JNull == [t |-> "null"]
Bool(b) == [t |-> "bool", b |-> b]
Num(n) == [t |-> "num", n |-> n]
Str(s) == [t |-> "str", s |-> s]
Arr(a) == [t |-> "arr", a |-> a]
Obj(o) == [t |-> "obj", o |-> o]
EmptyObj == Obj([f \in {} |-> Undef])

\* The number NaN.
NaN == [t |-> "nan"]

\* A string holding well-formed JSON text that denotes the value v.
JsonText(v) == [t |-> "text", json |-> v]

\* ToBoolean: the falsy values are undefined, null, false, 0, NaN and "".
Truthy(x) ==
    CASE x.t = "undef" -> FALSE
      [] x.t = "null" -> FALSE
      [] x.t = "bool" -> x.b
      [] x.t = "num" -> x.n # 0
      [] x.t = "str" -> x.s # ""
      [] x.t = "nan" -> FALSE
      [] OTHER -> TRUE

\* a || b
Or(a, b) == IF Truthy(a) THEN a ELSE b

\* o.f : undefined when the object has no such property.
Get(x, f) == IF x.t = "obj" /\ f \in DOMAIN x.o THEN x.o[f] ELSE Undef

\* { ...o, f: v }
With(fields, f, v) ==
    [g \in DOMAIN fields \cup {f} |-> IF g = f THEN v ELSE fields[g]]

\* Date.now()
DateNow == Num(now)

\* new Date().toISOString()
ISOString == Str("T" \o ToString(now))

\* Date.now().toString()
NowString == Str(ToString(now))

(***************************************************************************)
(* JSON.stringify and JSON.parse.  stringify drops the properties of an    *)
(* object whose value is undefined and writes undefined array elements as  *)
(* null; parse throws on a string that is not JSON text.                   *)
(***************************************************************************)
RECURSIVE JsonClean(_)
JsonClean(v) ==
    CASE v.t = "obj" ->
           Obj([f \in {g \in DOMAIN v.o : v.o[g].t # "undef"} |-> JsonClean(v.o[f])])
      [] v.t = "arr" ->
           Arr([i \in DOMAIN v.a |->
                   IF v.a[i].t = "undef" THEN JNull ELSE JsonClean(v.a[i])])
      [] OTHER -> v

JSONstringify(v) == JsonText(JsonClean(v))

\* [threw, val]: the value parsed, or a SyntaxError.
JSONparse(s) ==
    IF s.t = "text" THEN [threw |-> FALSE, val |-> s.json]
    ELSE [threw |-> TRUE, val |-> Undef]

(***************************************************************************)
(* localStorage.  Every access throws while storage is unavailable; a      *)
(* setItem also throws when the store rejects the write (quota).           *)
(***************************************************************************)
DRAFT_KEY_PREFIX == "recipe_draft_"
DRAFT_TIMESTAMP_KEY == "recipe_draft_timestamp"
USER_PROFILE_KEY == "user_profile"
REVIEWS_KEY == "recipe_reviews"
FAVORITES_KEY == "user_favorites"

\* [threw, val]
GetItem(st, key) ==
    IF ~available THEN [threw |-> TRUE, val |-> Undef]
    ELSE [threw |-> FALSE, val |-> IF key \in DOMAIN st THEN st[key] ELSE JNull]

\* [threw, st]: accepted says whether the store takes this write.
SetItem(st, key, value, accepted) ==
    IF ~available \/ ~accepted THEN [threw |-> TRUE, st |-> st]
    ELSE [threw |-> FALSE, st |-> [st EXCEPT ![key] = value]]

\* [threw, st]
RemoveItem(st, key) ==
    IF ~available THEN [threw |-> TRUE, st |-> st]
    ELSE [threw |-> FALSE, st |-> [st EXCEPT ![key] = JNull]]

\* The outcome of a call: what it returned (or that it threw) and the store
\* it left.
Returned(v, st) == [threw |-> FALSE, ret |-> v, st |-> st]
Thrown(st) == [threw |-> TRUE, ret |-> Undef, st |-> st]

\* A faulty variant of Catch: the error propagates to the caller.
Mutant_Catch(r, dflt) == r

\* try { body } catch (error) { return dflt }
Catch(r, dflt) == IF r.threw THEN Returned(dflt, r.st) ELSE r

(***************************************************************************)
(* The favorites store (useLocalStorage.js).                               *)
(***************************************************************************)
EmptyArr == Arr(<<>>)

\* fav.id === id, over the entries of a list
HasId(list, id) == \E i \in DOMAIN list : Get(list[i], "id") = id

LoadFavoritesBody(st) ==
    LET g == GetItem(st, FAVORITES_KEY) IN
    IF g.threw THEN Thrown(st)
    ELSE LET p == JSONparse(Or(g.val, JsonText(EmptyArr))) IN
         IF p.threw THEN Thrown(st)
         ELSE IF p.val.t = "arr" THEN Returned(p.val, st)
         ELSE Returned(Or(Get(p.val, "items"), EmptyArr), st)

LoadFavorites(st) == Catch(LoadFavoritesBody(st), EmptyArr)

\* A faulty variant of FavoriteRecipe: the recipe is stored as it was given,
\* without defaults.
Mutant_FavoriteRecipe(recipe) ==
    Obj([id |-> Or(Get(recipe, "id"), DateNow),
         name |-> Get(recipe, "name"),
         added_at |-> ISOString])

\* The snapshot addToFavorites builds: every optional field defaulted.
FavoriteRecipe(recipe) ==
    Obj([id |-> Or(Get(recipe, "id"), DateNow),
         name |-> Or(Get(recipe, "name"), Str("Unnamed Recipe")),
         description |-> Or(Get(recipe, "description"), Str("")),
         image_url |-> Or(Get(recipe, "image_url"), Str("")),
         category |-> Or(Get(recipe, "category"), Str("makanan")),
         prep_time |-> Or(Get(recipe, "prep_time"),
                          Or(Get(recipe, "cook_time"), Str("15"))),
         cook_time |-> Or(Get(recipe, "cook_time"), Str("15")),
         difficulty |-> Or(Get(recipe, "difficulty"), Str("mudah")),
         average_rating |-> Or(Get(recipe, "average_rating"), Num(0)),
         servings |-> Or(Get(recipe, "servings"), Num(4)),
         ingredients |-> Or(Get(recipe, "ingredients"), EmptyArr),
         steps |-> Or(Get(recipe, "steps"), EmptyArr),
         added_at |-> ISOString])

\* A faulty variant of ExistingIndexFound: no entry is ever found.
Mutant_ExistingIndexFound(favorites, recipe) == FALSE

\* The duplicate test of addToFavorites: findIndex(fav => fav.id === recipe.id)
ExistingIndexFound(favorites, recipe) == HasId(favorites, Get(recipe, "id"))

\* accepted: whether the store takes the setItem of this call.
AddToFavoritesBody(st, recipe, accepted) ==
    LET favorites == LoadFavorites(st).ret IN
    IF recipe.t \in {"null", "undef"} \/ favorites.t # "arr" THEN Thrown(st)
    ELSE IF ~ExistingIndexFound(favorites.a, recipe)
         THEN LET w == SetItem(st, FAVORITES_KEY,
                           JSONstringify(Arr(Append(favorites.a, FavoriteRecipe(recipe)))),
                           accepted) IN
              IF w.threw THEN Thrown(w.st) ELSE Returned(Bool(TRUE), w.st)
         ELSE Returned(Bool(FALSE), st)

AddToFavorites(st, recipe, accepted) ==
    Catch(AddToFavoritesBody(st, recipe, accepted), Bool(FALSE))

\* A faulty variant of WithoutId: nothing is filtered out.
Mutant_WithoutId(list, recipeId) == list

\* favorites.filter((fav) => fav.id !== recipeId)
WithoutId(list, recipeId) ==
    LET Keep(fav) == Get(fav, "id") # recipeId IN SelectSeq(list, Keep)

RemoveFromFavoritesBody(st, recipeId, accepted) ==
    LET favorites == LoadFavorites(st).ret IN
    IF favorites.t # "arr" THEN Thrown(st)
    ELSE LET w == SetItem(st, FAVORITES_KEY,
                          JSONstringify(Arr(WithoutId(favorites.a, recipeId))),
                          accepted) IN
         IF w.threw THEN Thrown(w.st) ELSE Returned(Bool(TRUE), w.st)

RemoveFromFavorites(st, recipeId, accepted) ==
    Catch(RemoveFromFavoritesBody(st, recipeId, accepted), Bool(FALSE))

IsRecipeFavoritedBody(st, recipeId) ==
    LET favorites == LoadFavorites(st).ret IN
    IF favorites.t # "arr" THEN Thrown(st)
    ELSE Returned(Bool(HasId(favorites.a, recipeId)), st)

IsRecipeFavorited(st, recipeId) ==
    Catch(IsRecipeFavoritedBody(st, recipeId), Bool(FALSE))

(***************************************************************************)
(* Drafts (useLocalStorage.js).                                            *)
(***************************************************************************)
\* The storage key of a draft identifier: the two singleton records have
\* their own keys, every other draft is prefixed.
DraftKey(draftId) ==
    IF draftId = "user_profile" THEN USER_PROFILE_KEY
    ELSE IF draftId = FAVORITES_KEY THEN FAVORITES_KEY
    ELSE DRAFT_KEY_PREFIX \o draftId

TimestampKey(key) == (key \o "_") \o DRAFT_TIMESTAMP_KEY

\* A faulty variant of IsSingleton: the favorites key is forgotten.
Mutant_IsSingleton(draftId) == draftId = "user_profile"

IsSingleton(draftId) == draftId = "user_profile" \/ draftId = FAVORITES_KEY

\* { ...v }: the own enumerable properties of v.  An array spreads to its
\* indices, a string to its characters, anything else to nothing.
Spread(v) ==
    CASE v.t = "obj" -> v.o
      [] v.t = "arr" ->
           [k \in {ToString(i - 1) : i \in DOMAIN v.a} |->
               v.a[CHOOSE i \in DOMAIN v.a : ToString(i - 1) = k]]
      [] v.t = "str" ->
           [k \in {ToString(i - 1) : i \in 1..Len(v.s)} |->
               LET i == CHOOSE j \in 1..Len(v.s) : ToString(j - 1) = k
               IN Str(SubSeq(v.s, i, i))]
      [] OTHER -> [k \in {} |-> Undef]

\* A faulty variant of DraftRecord: the payload is stored as it is.
Mutant_DraftRecord(draftData) == draftData

\* The record saveDraft stores: the payload's properties and savedAt.
DraftRecord(draftData) == Obj(With(Spread(draftData), "savedAt", ISOString))

SaveDraftBody(st, draftData, draftId, rejectAt) ==
    LET key == DraftKey(draftId)
        w1 == SetItem(st, key, JSONstringify(DraftRecord(draftData)), rejectAt # 1) IN
    IF w1.threw THEN Thrown(w1.st)
    ELSE IF ~IsSingleton(draftId)
    THEN LET w2 == SetItem(w1.st, TimestampKey(key), ISOString, rejectAt # 2) IN
         IF w2.threw THEN Thrown(w2.st) ELSE Returned(Bool(TRUE), w2.st)
    ELSE Returned(Bool(TRUE), w1.st)

SaveDraft(st, draftData, draftId, rejectAt) ==
    Catch(SaveDraftBody(st, draftData, draftId, rejectAt), Bool(FALSE))

LoadDraftBody(st, draftId) ==
    LET g == GetItem(st, DraftKey(draftId)) IN
    IF g.threw THEN Thrown(st)
    ELSE IF ~Truthy(g.val) THEN Returned(JNull, st)
    ELSE LET p == JSONparse(g.val) IN
         IF p.threw THEN Thrown(st) ELSE Returned(p.val, st)

LoadDraft(st, draftId) == Catch(LoadDraftBody(st, draftId), JNull)

DeleteDraftBody(st, draftId) ==
    LET key == DraftKey(draftId)
        r1 == RemoveItem(st, key) IN
    IF r1.threw THEN Thrown(r1.st)
    ELSE IF ~IsSingleton(draftId)
    THEN LET r2 == RemoveItem(r1.st, TimestampKey(key)) IN
         IF r2.threw THEN Thrown(r2.st) ELSE Returned(Bool(TRUE), r2.st)
    ELSE Returned(Bool(TRUE), r1.st)

DeleteDraft(st, draftId) == Catch(DeleteDraftBody(st, draftId), Bool(FALSE))

HasDraftBody(st, draftId) ==
    LET g == GetItem(st, DraftKey(draftId)) IN
    IF g.threw THEN Thrown(st) ELSE Returned(Bool(g.val # JNull), st)

HasDraft(st, draftId) == Catch(HasDraftBody(st, draftId), Bool(FALSE))

\* getDraftTimestamp always prefixes the identifier.
GetDraftTimestampBody(st, draftId) ==
    LET g == GetItem(st, TimestampKey(DRAFT_KEY_PREFIX \o draftId)) IN
    IF g.threw THEN Thrown(st) ELSE Returned(g.val, st)

GetDraftTimestamp(st, draftId) == Catch(GetDraftTimestampBody(st, draftId), JNull)

\* key.startsWith(prefix)
StartsWith(s, prefix) ==
    Len(s) >= Len(prefix) /\ SubSeq(s, 1, Len(prefix)) = prefix

\* key.includes(part)
Includes(s, part) ==
    \E i \in 1..(Len(s) - Len(part) + 1) : SubSeq(s, i, i + Len(part) - 1) = part

\* key.replace(part, ""): the first occurrence of part is taken out
WithoutFirst(s, part) ==
    IF ~Includes(s, part) THEN s
    ELSE LET i == CHOOSE i \in 1..(Len(s) - Len(part) + 1) :
                    /\ SubSeq(s, i, i + Len(part) - 1) = part
                    /\ \A j \in 1..(i - 1) : SubSeq(s, j, j + Len(part) - 1) # part
         IN SubSeq(s, 1, i - 1) \o SubSeq(s, i + Len(part), Len(s))

\* Object.keys(localStorage)
StoredKeys(st) == {key \in DOMAIN st : st[key] # JNull}

\* getAllDraftIds: the identifiers it returns, none when the storage cannot
\* be read
GetAllDraftIds(st) ==
    IF ~available THEN {}
    ELSE { WithoutFirst(key, DRAFT_KEY_PREFIX) :
             key \in { k \in StoredKeys(st) :
                         /\ StartsWith(k, DRAFT_KEY_PREFIX)
                         /\ ~Includes(k, DRAFT_TIMESTAMP_KEY) } }

\* draftIds.forEach((id) => deleteDraft(id))
RECURSIVE DeleteEach(_, _)
DeleteEach(st, draftIds) ==
    IF draftIds = {} THEN st
    ELSE LET id == CHOOSE id \in draftIds : TRUE IN
         DeleteEach(DeleteDraft(st, id).st, draftIds \ {id})

\* clearAllDrafts
ClearAllDrafts(st) == Returned(Bool(TRUE), DeleteEach(st, GetAllDraftIds(st)))

(***************************************************************************)
(* Reviews and the favorites record written whole (useLocalStorage.js).    *)
(***************************************************************************)
\* JSON.parse(localStorage.getItem(REVIEWS_KEY) || "[]")
ReadReviews(st) ==
    LET g == GetItem(st, REVIEWS_KEY) IN
    IF g.threw THEN [threw |-> TRUE, val |-> Undef]
    ELSE JSONparse(Or(g.val, JsonText(EmptyArr)))

SaveReviewBody(st, reviewData, accepted) ==
    LET reviews == ReadReviews(st) IN
    IF reviews.threw \/ reviews.val.t # "arr" THEN Thrown(st)
    ELSE LET newReview ==
                 Obj(With(With(Spread(reviewData), "id", NowString),
                          "created_at", ISOString))
             w == SetItem(st, REVIEWS_KEY,
                          JSONstringify(Arr(Append(reviews.val.a, newReview))),
                          accepted) IN
         IF w.threw THEN Thrown(w.st) ELSE Returned(newReview, w.st)

SaveReview(st, reviewData, accepted) ==
    Catch(SaveReviewBody(st, reviewData, accepted), JNull)

\* A faulty variant of ReviewsWith: every review is kept.
Mutant_ReviewsWith(list, field, value) == list

\* reviews.filter((review) => review[field] === value)
ReviewsWith(list, field, value) ==
    LET Keep(review) == Get(review, field) = value IN SelectSeq(list, Keep)

LoadUserReviewsBody(st, userIdentifier) ==
    LET reviews == ReadReviews(st) IN
    IF reviews.threw \/ reviews.val.t # "arr" THEN Thrown(st)
    ELSE Returned(Arr(ReviewsWith(reviews.val.a, "user_identifier", userIdentifier)),
                  st)

LoadUserReviews(st, userIdentifier) ==
    Catch(LoadUserReviewsBody(st, userIdentifier), EmptyArr)

SaveFavoritesBody(st, favoritesData, accepted) ==
    LET w == SetItem(st, FAVORITES_KEY, JSONstringify(favoritesData), accepted) IN
    IF w.threw THEN Thrown(w.st) ELSE Returned(Bool(TRUE), w.st)

SaveFavorites(st, favoritesData, accepted) ==
    Catch(SaveFavoritesBody(st, favoritesData, accepted), Bool(FALSE))

(***************************************************************************)
(* useToggleFavorite().toggleFavorite (useFavorites.js).  The function has *)
(* no await: within one browsing context it runs to completion.            *)
(***************************************************************************)
ToggleFavoriteBody(st, recipe, accepted) ==
    IF recipe.t \in {"null", "undef"} THEN Thrown(st)
    ELSE LET isFavorited == IsRecipeFavorited(st, Get(recipe, "id")).ret IN
         IF isFavorited.b
         THEN Returned(Bool(FALSE),
                       RemoveFromFavorites(st, Get(recipe, "id"), accepted).st)
         ELSE Returned(Bool(TRUE), AddToFavorites(st, recipe, accepted).st)

ToggleFavorite(st, recipe, accepted) ==
    Catch(ToggleFavoriteBody(st, recipe, accepted), JNull)

(***************************************************************************)
(* The API client (part_001): axios with the response interceptors.  A     *)
(* call ends with a response of some status, or with no response at all    *)
(* (network failure, or the timeout of the client).                        *)
(***************************************************************************)
AxiosError(outcome) ==
    Obj([message |-> Str(IF outcome.kind = "timeout"
                         THEN "timeout of 10000ms exceeded"
                         ELSE IF outcome.kind = "network" THEN "Network Error"
                         ELSE "Request failed")])

\* A faulty variant of ApiClient: an error response resolves to its body.
Mutant_ApiClient(outcome) ==
    IF outcome.kind = "response"
    THEN [settled |-> "resolved", value |-> outcome.data]
    ELSE [settled |-> "rejected", value |-> AxiosError(outcome)]

\* [settled, value]: resolved with response.data, or rejected with
\* error.response?.data || error.
ApiClient(outcome) ==
    IF outcome.kind = "response" /\ outcome.status >= 200 /\ outcome.status < 300
    THEN [settled |-> "resolved", value |-> outcome.data]
    ELSE [settled |-> "rejected",
          value |-> IF outcome.kind = "response"
                    THEN Or(outcome.data, AxiosError(outcome))
                    ELSE AxiosError(outcome)]

(***************************************************************************)
(* ReviewService (part_002).                                               *)
(***************************************************************************)
GetReviewsFromStorageBody(st, recipeId) ==
    LET allReviews == ReadReviews(st) IN
    IF allReviews.threw \/ allReviews.val.t # "arr" THEN Thrown(st)
    ELSE Returned(Arr(ReviewsWith(allReviews.val.a, "recipe_id", recipeId)), st)

\* A faulty variant of GetReviews: a failed request is not replaced by the
\* local reviews.
Mutant_GetReviews(st, recipeId, outcome) ==
    Returned(Obj([success |-> Bool(TRUE), data |-> EmptyArr]), st)

GetReviewsFromStorage(st, recipeId) ==
    Catch(GetReviewsFromStorageBody(st, recipeId), EmptyArr)

GetReviews(st, recipeId, outcome) ==
    LET api == ApiClient(outcome) IN
    IF api.settled = "resolved" THEN Returned(api.value, st)
    ELSE Returned(Obj([success |-> Bool(TRUE),
                       data |-> GetReviewsFromStorage(st, recipeId).ret]), st)

NewReview(recipeId, reviewData) ==
    Obj([id |-> NowString,
         recipe_id |-> recipeId,
         recipe_name |-> Get(reviewData, "recipe_name"),
         category |-> Get(reviewData, "category"),
         user_identifier |-> Get(reviewData, "user_identifier"),
         rating |-> Get(reviewData, "rating"),
         comment |-> Or(Get(reviewData, "comment"), Str("")),
         created_at |-> ISOString])

SaveReviewToStorageBody(st, recipeId, reviewData, accepted) ==
    LET allReviews == ReadReviews(st) IN
    IF allReviews.threw \/ reviewData.t \in {"null", "undef"}
          \/ allReviews.val.t # "arr"
    THEN Thrown(st)
    ELSE LET newReview == NewReview(recipeId, reviewData)
             w == SetItem(st, REVIEWS_KEY,
                          JSONstringify(Arr(Append(allReviews.val.a, newReview))),
                          accepted) IN
         IF w.threw THEN Thrown(w.st) ELSE Returned(newReview, w.st)

SaveReviewToStorage(st, recipeId, reviewData, accepted) ==
    Catch(SaveReviewToStorageBody(st, recipeId, reviewData, accepted), JNull)

\* A faulty variant of ResponseAccepted: every response body passes.
Mutant_ResponseAccepted(response) == TRUE

\* The test createReview makes before it keeps a local copy of a review
\* the server answered: response.success || response.data
ResponseAccepted(response) ==
    Truthy(Or(Get(response, "success"), Get(response, "data")))

\* The try block of createReview: throws when the request is rejected, and
\* when the response body has no properties to read (null).
CreateReviewTry(st, recipeId, reviewData, outcome, accepted) ==
    LET api == ApiClient(outcome) IN
    IF api.settled = "rejected" \/ api.value.t \in {"null", "undef"}
    THEN Thrown(st)
    ELSE IF ResponseAccepted(api.value)
    THEN Returned(api.value,
                  SaveReviewToStorage(st, recipeId, reviewData, accepted).st)
    ELSE Returned(api.value, st)

CreateReview(st, recipeId, reviewData, outcome, accepted) ==
    LET try == CreateReviewTry(st, recipeId, reviewData, outcome, accepted) IN
    IF try.threw
    THEN Returned(Obj([success |-> Bool(TRUE), data |-> reviewData,
                       offline |-> Bool(TRUE)]),
                  SaveReviewToStorage(try.st, recipeId, reviewData, accepted).st)
    ELSE try

\* The outcome of a call that throws the error e to its caller.
Raised(e, st) == [threw |-> TRUE, ret |-> e, st |-> st]

\* A faulty variant of UpdateReview: a failed request is answered with a
\* fabricated success envelope.
Mutant_UpdateReview(st, reviewId, reviewData, outcome) ==
    Returned(Obj([success |-> Bool(TRUE), data |-> reviewData,
                  offline |-> Bool(TRUE)]), st)

\* try { return await apiClient.put(...) } catch (error) { throw error }
UpdateReview(st, reviewId, reviewData, outcome) ==
    LET api == ApiClient(outcome) IN
    IF api.settled = "resolved" THEN Returned(api.value, st)
    ELSE Raised(api.value, st)

\* try { return await apiClient.delete(...) } catch (error) { throw error }
DeleteReview(st, reviewId, outcome) ==
    LET api == ApiClient(outcome) IN
    IF api.settled = "resolved" THEN Returned(api.value, st)
    ELSE Raised(api.value, st)

(***************************************************************************)
(* useLocalStorageValue (useLocalStorage.js), as ProfilePage (part_005)    *)
(* uses it: a state value read from the store when the component mounts,   *)
(* and an interval timer that reads it again.                              *)
(***************************************************************************)
POLL_INTERVAL == 500   \* setInterval(..., 500), in milliseconds
Quantum == 250         \* the step in which time is observed, in milliseconds

\* item ? JSON.parse(item) : initialValue, inside try / catch: what a
\* subscriber of key holds after reading the store.  current is what it
\* held before; a read or a decoding that throws leaves it.
ReadSubscribed(st, key, initialValue, current) ==
    LET g == GetItem(st, key) IN
    IF g.threw THEN current
    ELSE IF ~Truthy(g.val) THEN initialValue
    ELSE LET p == JSONparse(g.val) IN
         IF p.threw THEN current ELSE p.val

\* The two subscriptions of ProfilePage, and the key of each.
Subscribers == {"favoritesFromStorage", "reviewsFromStorage"}

SubscribedKey(s) == IF s = "favoritesFromStorage" THEN FAVORITES_KEY ELSE REVIEWS_KEY

\* Both subscriptions pass the literal [] as initial value.
InitialValue(s) == EmptyArr

\* ProfilePage after its first render: every subscription holds what the
\* useState initializer read (the initial value when the read throws), its
\* timer has just been set, no render is pending.  age is the time since
\* the key was last written or removed successfully.
MountedPage(st) ==
    [mounted |-> TRUE,
     value |-> [s \in Subscribers |->
                   ReadSubscribed(st, SubscribedKey(s), InitialValue(s),
                                  InitialValue(s))],
     timer |-> [s \in Subscribers |-> 0],
     age |-> [s \in Subscribers |-> 0],
     renderPending |-> FALSE]

\* handleRemoveReview(reviewId) of ProfilePage, the confirmation accepted:
\* [threw, ret, st], ret being the reviews handed to setUserReviews.  The
\* handler has no try / catch.
HandleRemoveReview(st, reviewId, username, accepted) ==
    LET g == GetItem(st, REVIEWS_KEY) IN
    IF g.threw THEN Thrown(st)
    ELSE LET allReviews == JSONparse(Or(g.val, JsonText(EmptyArr))) IN
    IF allReviews.threw \/ allReviews.val.t # "arr" THEN Thrown(st)
    ELSE LET Keep(review) == Get(review, "id") # reviewId
             updatedReviews == SelectSeq(allReviews.val.a, Keep)
             w == SetItem(st, REVIEWS_KEY, JSONstringify(Arr(updatedReviews)),
                          accepted) IN
    IF w.threw THEN Thrown(w.st)
    ELSE Returned(Arr(ReviewsWith(updatedReviews, "user_identifier", username)),
                  w.st)

\* The reviews the page lists for the user: those of the subscription whose
\* user_identifier is the user's name.
UserReviews(value, username) ==
    IF value.t = "arr" THEN ReviewsWith(value.a, "user_identifier", username)
    ELSE <<>>

(***************************************************************************)
(* useFavoriteRecipe (part_004): a mutation with an optimistic update of   *)
(* the query cache.  The cache maps the key ['recipe', id] to the response *)
(* envelope of the recipe (undefined when nothing is cached) and the key   *)
(* ['recipes'] to the list response.                                       *)
(***************************************************************************)
\* The methods the RecipeService class defines (recipeService.js).
RecipeServiceMethods ==
    {"getRecipes", "getRecipeById", "createRecipe", "updateRecipe",
     "patchRecipe", "deleteRecipe", "normalizeRecipeData",
     "prepareRecipeData", "validateRecipeData"}

\* new Error(message) / a TypeError
ErrorOf(message) == Obj([message |-> Str(message)])

\* mutationFn({recipeId, isFavorite}); outcome is what the server answers
\* to the request, if one is sent.  Calling a method the service does not
\* define throws a TypeError before anything is sent.
MutationFn(variables, outcome) ==
    LET method == IF Truthy(variables.isFavorite) THEN "unfavoriteRecipe"
                  ELSE "favoriteRecipe" IN
    IF method \notin RecipeServiceMethods
    THEN [threw |-> TRUE, ret |-> ErrorOf(method \o " is not a function"),
          sent |-> FALSE]
    ELSE LET api == ApiClient(outcome) IN
         IF api.settled = "rejected"
         THEN [threw |-> TRUE, ret |-> api.value, sent |-> TRUE]
         ELSE IF api.value.t \in {"null", "undef"}
         THEN [threw |-> TRUE, ret |-> ErrorOf("Cannot read properties"),
               sent |-> TRUE]
         ELSE IF ~Truthy(Get(api.value, "success"))
         THEN [threw |-> TRUE,
               ret |-> Obj([message |->
                              Or(Get(api.value, "message"),
                                 Str("Failed to update favorite status"))]),
               sent |-> TRUE]
         ELSE [threw |-> FALSE, ret |-> Get(api.value, "data"), sent |-> TRUE]

\* old => ({ ...old, data: { ...old.data, is_favorite: variables.isFavorite } })
Optimistic(old, variables) ==
    Obj(With(Spread(old), "data",
             Obj(With(Spread(Get(old, "data")), "is_favorite",
                      variables.isFavorite))))

\* onMutate: the snapshot it returns as context and the cache it leaves.
OnMutate(cache, variables) ==
    LET previousRecipe == cache.recipe[variables.recipeId]
        previousRecipes == cache.recipes IN
    [context |-> [previousRecipe |-> previousRecipe,
                  previousRecipes |-> previousRecipes],
     cache |-> IF Truthy(previousRecipe)
               THEN [cache EXCEPT !.recipe[variables.recipeId] =
                                      Optimistic(previousRecipe, variables)]
               ELSE cache]

\* onSuccess(updatedRecipe): the recipe's entry is replaced when the
\* recipe returned has an id that is a cache key, and the list is invalidated.
OnSuccess(cache, updatedRecipe) ==
    LET id == Get(updatedRecipe, "id") IN
    [(IF Truthy(id) /\ id \in DOMAIN cache.recipe
      THEN [cache EXCEPT !.recipe[id] =
                Obj([success |-> Bool(TRUE), data |-> updatedRecipe])]
      ELSE cache)
     EXCEPT !.recipesStale = TRUE]

\* onError(error, variables, context): roll back to the snapshots that
\* are not empty.
OnError(cache, variables, context) ==
    LET c1 == IF Truthy(context.previousRecipe)
              THEN [cache EXCEPT !.recipe[variables.recipeId] =
                                     context.previousRecipe]
              ELSE cache IN
    IF Truthy(context.previousRecipes)
    THEN [c1 EXCEPT !.recipes = context.previousRecipes]
    ELSE c1

\* The cache once the mutation has settled.
SettledCache(cache, variables, context, outcome) ==
    LET r == MutationFn(variables, outcome) IN
    IF r.threw THEN OnError(cache, variables, context)
    ELSE OnSuccess(cache, r.ret)

(***************************************************************************)
(* parseInt, String.prototype.trim and Array.isArray.                      *)
(***************************************************************************)
IsDigit(c) == c \in {"0", "1", "2", "3", "4", "5", "6", "7", "8", "9"}

DigitOf(c) == CHOOSE d \in 0..9 : ToString(d) = c

\* The index of the first character of s at or after i that is no blank.
RECURSIVE SkipBlanks(_, _)
SkipBlanks(s, i) ==
    IF i <= Len(s) /\ SubSeq(s, i, i) = " " THEN SkipBlanks(s, i + 1) ELSE i

\* The digits of s from i on: whether there is one, and their value.
RECURSIVE ParseDigits(_, _, _, _)
ParseDigits(s, i, acc, seen) ==
    IF i > Len(s) \/ ~IsDigit(SubSeq(s, i, i)) THEN [seen |-> seen, val |-> acc]
    ELSE ParseDigits(s, i + 1, acc * 10 + DigitOf(SubSeq(s, i, i)), TRUE)

\* parseInt of a string: leading blanks, a sign, then the longest run of
\* digits; NaN when there is no digit.
ParseIntString(s) ==
    LET i == SkipBlanks(s, 1)
        signed == i <= Len(s) /\ SubSeq(s, i, i) \in {"-", "+"}
        negative == signed /\ SubSeq(s, i, i) = "-"
        d == ParseDigits(s, IF signed THEN i + 1 ELSE i, 0, FALSE) IN
    IF ~d.seen THEN NaN
    ELSE Num(IF negative THEN 0 - d.val ELSE d.val)

\* parseInt(v): v is converted to a string first.  Numbers are whole
\* numbers here; booleans, null, undefined and objects give NaN.
ParseInt(v) ==
    CASE v.t = "num" -> v
      [] v.t = "str" -> ParseIntString(v.s)
      [] OTHER -> NaN

\* s.trim(), for blanks
RECURSIVE TrimEnd(_)
TrimEnd(s) ==
    IF Len(s) > 0 /\ SubSeq(s, Len(s), Len(s)) = " "
    THEN TrimEnd(SubSeq(s, 1, Len(s) - 1)) ELSE s

Trim(s) == TrimEnd(SubSeq(s, SkipBlanks(s, 1), Len(s)))

IsArray(v) == v.t = "arr"

(***************************************************************************)
(* RecipeService.normalizeRecipeData (recipeService.js).                   *)
(***************************************************************************)
\* The identifier given to an ingredient or step that has none:
\* `${kind}-${Date.now()}-${Math.random()}`; random is the number drawn.
FreshId(kind, random) ==
    Str(((kind \o "-") \o ToString(now)) \o ("-" \o random))

NormalizedIngredient(ingredient, random) ==
    Obj([id |-> Or(Get(ingredient, "id"), FreshId("ingredient", random)),
         name |-> Or(Get(ingredient, "name"), Str("")),
         quantity |-> Or(Get(ingredient, "quantity"), Str(""))])

NormalizedStep(step, index, random) ==
    Obj([id |-> Or(Get(step, "id"), FreshId("step", random)),
         step_number |-> Or(Get(step, "step_number"), Num(index + 1)),
         instruction |-> Or(Get(step, "instruction"), Str(""))])

\* Reading a property of null or undefined throws a TypeError.
HasNullish(list) == \E i \in DOMAIN list : list[i].t \in {"null", "undef"}

\* parseInt(v) || fallback
NumberOr(v, fallback) == Or(ParseInt(v), Num(fallback))

\* normalizeRecipeData(recipe); random[i] is the i-th number Math.random()
\* returns during the call.  [threw, ret]
NormalizeRecipeData(recipe, random) ==
    IF ~Truthy(recipe) THEN [threw |-> FALSE, ret |-> recipe]
    ELSE LET ingredients == Get(recipe, "ingredients")
             steps == Get(recipe, "steps") IN
    IF \/ IsArray(ingredients) /\ HasNullish(ingredients.a)
       \/ IsArray(steps) /\ HasNullish(steps.a)
    THEN [threw |-> TRUE, ret |-> Undef]
    ELSE
    [threw |-> FALSE,
     ret |-> Obj(
       [f \in {"ingredients", "steps", "image_url", "prep_time", "cook_time",
               "servings", "average_rating", "review_count", "name",
               "description", "category", "difficulty"} |->
          CASE f = "ingredients" ->
                 IF IsArray(ingredients)
                 THEN Arr([i \in DOMAIN ingredients.a |->
                             NormalizedIngredient(ingredients.a[i], random[i])])
                 ELSE EmptyArr
            [] f = "steps" ->
                 IF IsArray(steps)
                 THEN Arr([i \in DOMAIN steps.a |->
                             NormalizedStep(steps.a[i], i - 1,
                                 random[i + (IF IsArray(ingredients)
                                             THEN Len(ingredients.a) ELSE 0)])])
                 ELSE EmptyArr
            [] f = "image_url" ->
                 Or(Get(recipe, "image_url"), Or(Get(recipe, "image"), Str("")))
            [] f = "prep_time" -> NumberOr(Get(recipe, "prep_time"), 0)
            [] f = "cook_time" -> NumberOr(Get(recipe, "cook_time"), 0)
            [] f = "servings" -> NumberOr(Get(recipe, "servings"), 1)
            [] f = "average_rating" -> NumberOr(Get(recipe, "average_rating"), 0)
            [] f = "review_count" -> NumberOr(Get(recipe, "review_count"), 0)
            [] f = "name" -> Or(Get(recipe, "name"), Str("Untitled Recipe"))
            [] f = "description" -> Or(Get(recipe, "description"), Str(""))
            [] f = "category" -> Or(Get(recipe, "category"), Str("makanan"))
            [] f = "difficulty" -> Or(Get(recipe, "difficulty"), Str("mudah"))]
       @@ Spread(recipe))]

(***************************************************************************)
(* RecipeService.prepareRecipeData and validateRecipeData                  *)
(* (recipeService.js).                                                     *)
(***************************************************************************)
\* s?.trim() || '' : the trimmed text of a string, '' for anything falsy
TrimOrEmpty(v) == IF v.t = "str" THEN Str(Trim(v.s)) ELSE Str("")

RECURSIVE SelectList(_, _)
SelectList(list, keep) ==
    IF list = <<>> THEN <<>>
    ELSE IF keep[1] THEN <<list[1]>> \o SelectList(Tail(list), Tail(keep))
    ELSE SelectList(Tail(list), Tail(keep))

\* ingredients.map(...).filter(ingredient => ingredient.name && ingredient.quantity)
PreparedIngredients(list) ==
    LET mapped == [i \in DOMAIN list |->
                     Obj([name |-> TrimOrEmpty(Get(list[i], "name")),
                          quantity |-> TrimOrEmpty(Get(list[i], "quantity"))])] IN
    SelectList(mapped,
               [i \in DOMAIN mapped |->
                  Truthy(Get(mapped[i], "name")) /\ Truthy(Get(mapped[i], "quantity"))])

\* steps.map(...).filter(step => step && step.length > 0): the trimmed text
\* of a string step or of the instruction of an object step
PreparedSteps(list) ==
    LET mapped == [i \in DOMAIN list |->
                     IF list[i].t = "str" THEN Str(Trim(list[i].s))
                     ELSE IF Truthy(list[i]) /\ Truthy(Get(list[i], "instruction"))
                     THEN Str(Trim(Get(list[i], "instruction").s))
                     ELSE JNull] IN
    SelectList(mapped, [i \in DOMAIN mapped |-> Truthy(mapped[i])])

\* prepareRecipeData(recipeData, currentRecipe)
PrepareRecipeData(recipeData, currentRecipe) ==
    LET given == Spread(recipeData)
        image == IF ~Truthy(Get(recipeData, "image_url"))
                    /\ Truthy(Get(currentRecipe, "image_url"))
                 THEN Get(currentRecipe, "image_url")
                 ELSE Get(recipeData, "image_url")
        prepared ==
          [f \in {"ingredients", "steps", "image_url", "prep_time", "cook_time",
                  "servings", "name", "description"} |->
             CASE f = "ingredients" ->
                    IF IsArray(Get(recipeData, "ingredients"))
                    THEN Arr(PreparedIngredients(Get(recipeData, "ingredients").a))
                    ELSE EmptyArr
               [] f = "steps" ->
                    IF IsArray(Get(recipeData, "steps"))
                    THEN Arr(PreparedSteps(Get(recipeData, "steps").a))
                    ELSE EmptyArr
               [] f = "image_url" -> image
               [] f = "prep_time" -> NumberOr(Get(recipeData, "prep_time"), 0)
               [] f = "cook_time" -> NumberOr(Get(recipeData, "cook_time"), 0)
               [] f = "servings" -> NumberOr(Get(recipeData, "servings"), 1)
               [] f = "name" -> TrimOrEmpty(Get(recipeData, "name"))
               [] f = "description" -> TrimOrEmpty(Get(recipeData, "description"))]
          @@ given IN
    Obj([f \in {g \in DOMAIN prepared : prepared[g].t \notin {"undef", "null"}} |->
           prepared[f]])

\* x < bound for a number x; false for a value that is no number
LessThan(v, bound) == v.t = "num" /\ v.n < bound

\* !s?.trim()
BlankText(v) == v.t # "str" \/ Trim(v.s) = ""

\* validateRecipeData(recipeData).isValid
ValidateRecipeData(recipeData) ==
    LET ingredients == Get(recipeData, "ingredients")
        steps == Get(recipeData, "steps") IN
    /\ ~BlankText(Get(recipeData, "name"))
    /\ ~BlankText(Get(recipeData, "description"))
    /\ IsArray(ingredients) /\ Len(ingredients.a) # 0
    /\ IsArray(steps) /\ Len(steps.a) # 0
    /\ ~LessThan(Get(recipeData, "prep_time"), 0)
    /\ ~LessThan(Get(recipeData, "cook_time"), 0)
    /\ ~LessThan(Get(recipeData, "servings"), 1)

(***************************************************************************)
(* useUpdateRecipe (part_004), RecipeService.updateRecipe and              *)
(* getRecipeById (recipeService.js), and the handlers of EditRecipePage.   *)
(***************************************************************************)
Request(method, body) == [method |-> method, body |-> body]

\* getRecipeById(id): [threw, ret].  The body of the response is returned;
\* its data.data, when there is one, is normalized first.
GetRecipeById(outcome, random) ==
    LET response == ApiClient(outcome) IN
    IF response.settled = "rejected" THEN [threw |-> TRUE, ret |-> response.value]
    ELSE LET inner == Get(Get(response.value, "data"), "data") IN
    IF Truthy(Get(response.value, "data")) /\ Truthy(inner)
    THEN LET n == NormalizeRecipeData(inner, random) IN
         IF n.threw THEN [threw |-> TRUE, ret |-> Undef]
         ELSE [threw |-> FALSE,
               ret |-> Obj(With(response.value.o, "data",
                                Obj(With(Get(response.value, "data").o, "data", n.ret))))]
    ELSE [threw |-> FALSE, ret |-> response.value]

\* A faulty variant of CompleteUpdateData: the current recipe is not spread
\* into the data.
Mutant_CompleteUpdateData(currentRecipe, updatedData) ==
    Obj(With(Spread(updatedData), "updated_at", ISOString))

\* The data updateRecipe of useUpdateRecipe hands to the service
CompleteUpdateData(currentRecipe, updatedData) ==
    Obj([f \in {"image_url", "ingredients", "steps", "updated_at"} |->
           CASE f = "image_url" ->
                  Or(Get(updatedData, "image_url"),
                     Or(Get(updatedData, "image"),
                        Or(Get(currentRecipe, "image_url"), Get(currentRecipe, "image"))))
             [] f = "ingredients" ->
                  Or(Get(updatedData, "ingredients"),
                     Or(Get(currentRecipe, "ingredients"), EmptyArr))
             [] f = "steps" ->
                  Or(Get(updatedData, "steps"),
                     Or(Get(currentRecipe, "steps"), EmptyArr))
             [] f = "updated_at" -> ISOString]
        @@ Spread(updatedData) @@ Spread(currentRecipe))

\* recipeService.updateRecipe(id, recipeData) up to its PUT request: the
\* requests it issues, in order.  The current recipe is fetched first; when
\* that fails the data is prepared without it.
UpdateRecipeRequests(recipeData, fetched, random) ==
    LET current == GetRecipeById(fetched, random)
        currentRecipe ==
            IF ~current.threw /\ Truthy(Get(current.ret, "data"))
               /\ Truthy(Get(Get(current.ret, "data"), "data"))
            THEN Get(Get(current.ret, "data"), "data")
            ELSE JNull IN
    <<Request("GET", Undef),
      Request("PUT", PrepareRecipeData(recipeData, currentRecipe))>>

\* updateRecipe(recipeId, updatedData) of useUpdateRecipe: the requests
\* issued.  first and second are the outcomes of the two fetches of the
\* current recipe.
UpdateRecipeMutation(updatedData, first, second, random) ==
    LET currentResponse == GetRecipeById(first, random) IN
    IF currentResponse.threw \/ ~Truthy(Get(currentResponse.ret, "success"))
    THEN <<Request("GET", Undef)>>
    ELSE <<Request("GET", Undef)>>
         \o UpdateRecipeRequests(
                CompleteUpdateData(Get(currentResponse.ret, "data"), updatedData),
                second, random)

\* handleSubmit of EditRecipePage: the requests issued
HandleSubmitRequests(formData, first, second, random) ==
    IF \/ ~Truthy(Str(Trim(Get(formData, "name").s)))
       \/ ~Truthy(Str(Trim(Get(formData, "description").s)))
       \/ Len(Get(formData, "ingredients").a) = 0
       \/ Len(Get(formData, "steps").a) = 0
    THEN <<>>
    ELSE UpdateRecipeMutation(formData, first, second, random)

(***************************************************************************)
(* The state machine.                                                      *)
(***************************************************************************)
Contexts == {"tabA", "tabB"}

\* No page component is mounted.
NoUi == [mounted |-> FALSE]

\* A toggleFavorite call of one browsing context: where it is (pc), its
\* argument, what isRecipeFavorited answered, the list it is about to write,
\* its result; and, to state the claims, the membership when the call (or
\* the call it overlaps) began, whether it overlapped another call on the
\* same recipe, and whether its write was accepted.
Idle == [pc |-> "idle", recipe |-> Undef, isFavorited |-> FALSE,
         pending |-> Undef, ret |-> Undef,
         orig |-> FALSE, paired |-> FALSE, clean |-> TRUE]

\* The storage keys the application uses.
PlainDraftIds == {"create", "1"}
DraftIds == PlainDraftIds \cup {"user_profile", FAVORITES_KEY}

\* A draft identifier that holds the text of the timestamp suffix
SuffixDraftIds == {DRAFT_TIMESTAMP_KEY}
Keys ==
    {USER_PROFILE_KEY, REVIEWS_KEY, FAVORITES_KEY}
        \cup {DraftKey(d) : d \in PlainDraftIds \cup SuffixDraftIds}
        \cup {TimestampKey(DraftKey(d)) : d \in DraftIds \cup SuffixDraftIds}

EmptyStore == [k \in Keys |-> JNull]

\* The recipes handed to the favorites functions: a recipe with only an
\* identifier and a name, a fully described one, one without identifier,
\* and no recipe at all.
Recipes ==
    { Obj([id |-> Num(1), name |-> Str("Soto")]),
      Obj([id |-> Num(2), name |-> Str("Teh"), category |-> Str("minuman"),
           difficulty |-> Str("sulit"), servings |-> Num(2),
           cook_time |-> Num(30)]),
      Obj([name |-> Str("Tanpa id")]),
      JNull }

RecipeIds == {Num(1), Num(2)}

DraftValues ==
    { Obj([username |-> Str("Ani")]),
      Obj([username |-> Str("Ani"), savedAt |-> Str("T0")]),
      Arr(<<Str("a")>>),
      Str("ab"),
      JNull }

ReviewDatas ==
    { Obj([user_identifier |-> Str("u1"), rating |-> Num(5),
           comment |-> Str("enak")]),
      Obj([user_identifier |-> Str("u2"), rating |-> Num(3)]),
      JNull }

\* saveReview is handed the whole review, recipe_id included.
FullReviewDatas ==
    { Obj([recipe_id |-> Num(1), user_identifier |-> Str("u1"),
           rating |-> Num(5), comment |-> Str("enak")]),
      Obj([recipe_id |-> Num(2), user_identifier |-> Str("u2"),
           rating |-> Num(3)]) }

UserIdentifiers == {Str("u1"), Str("u2")}

LegacyEntry == Obj([id |-> Num(2)])

FavoritesDatas ==
    { EmptyArr, Arr(<<LegacyEntry>>), Obj([items |-> Arr(<<LegacyEntry>>)]) }

\* What a request can end with.
OkEnvelope ==
    Obj([success |-> Bool(TRUE), data |-> Arr(<<Obj([id |-> Str("srv1")])>>),
         message |-> Str("ok")])
DataOnly == Obj([data |-> Arr(<<Obj([id |-> Str("srv1")])>>)])
NoSuccessNoData == Obj([success |-> Bool(FALSE), message |-> Str("ditolak")])
ErrorPayload == Obj([success |-> Bool(FALSE), message |-> Str("server error")])

RemoteOutcomes ==
    { [kind |-> "response", status |-> 200, data |-> OkEnvelope],
      [kind |-> "response", status |-> 201, data |-> DataOnly],
      [kind |-> "response", status |-> 200, data |-> NoSuccessNoData],
      [kind |-> "response", status |-> 200, data |-> JNull],
      [kind |-> "response", status |-> 500, data |-> ErrorPayload],
      [kind |-> "response", status |-> 502, data |-> Str("")],
      [kind |-> "network", status |-> 0, data |-> Undef],
      [kind |-> "timeout", status |-> 0, data |-> Undef] }

\* The request did not succeed: the server answered with an error status,
\* or there was no answer.
RemoteFailed(outcome) ==
    outcome.kind # "response" \/ outcome.status < 200 \/ outcome.status >= 300

\* The favorites the store holds, read without the application's code:
\* the entries of the stored array (or the items of a legacy object).
StoredFavorites(st) ==
    LET x == st[FAVORITES_KEY] IN
    IF x.t # "text" THEN <<>>
    ELSE IF x.json.t = "arr" THEN x.json.a
    ELSE IF x.json.t = "obj" /\ "items" \in DOMAIN x.json.o
              /\ x.json.o["items"].t = "arr"
         THEN x.json.o["items"].a
    ELSE <<>>

StoredIds(st) ==
    {Get(StoredFavorites(st)[i], "id") : i \in DOMAIN StoredFavorites(st)}

\* The reviews the store holds, read without the application's code.
StoredReviews(st) ==
    LET x == st[REVIEWS_KEY] IN
    IF x.t = "text" /\ x.json.t = "arr" THEN x.json.a ELSE <<>>

\* The number of records in the store: favorites, reviews, drafts, the
\* profile, and a draft saved under the favorites key.
StoredItems(st) ==
    Len(StoredFavorites(st)) + Len(StoredReviews(st))
        + Cardinality({d \in PlainDraftIds \cup {"user_profile"} :
                         st[DraftKey(d)] # JNull})
        + (IF st[FAVORITES_KEY].t = "text"
              /\ Get(st[FAVORITES_KEY].json, "savedAt") # Undef
           THEN 1 ELSE 0)

\* Content this version of the application did not write: malformed text,
\* the legacy favorites object, records that are no arrays.
Malformed == Str("{oops")

ForeignStores ==
    {[EmptyStore EXCEPT ![FAVORITES_KEY] = c] :
        c \in {Malformed, JsonText(Obj([items |-> Arr(<<LegacyEntry>>)])),
               JsonText(EmptyObj)}}
      \cup {[EmptyStore EXCEPT ![REVIEWS_KEY] = c] :
               c \in {Malformed, JsonText(EmptyObj)}}
      \cup {[EmptyStore EXCEPT ![DraftKey(d)] = Malformed] :
               d \in {"create", "user_profile"}}

\* One millisecond passes.
Tick ==
    /\ now < Epoch + MaxClock
    /\ now' = now + 1
    /\ UNCHANGED <<store, available, ctx, ui>>

\* write: the call and its inputs are chosen, and the store is what the
\* call leaves.
CallAddToFavorites(cap) ==
    \E recipe \in Recipes, rejectAt \in 0..1 :
        /\ StoredItems(store) < cap
        /\ store' = AddToFavorites(store, recipe, rejectAt # 1).st
        /\ UNCHANGED <<available, now, ctx, ui>>

CallRemoveFromFavorites ==
    \E recipeId \in RecipeIds \cup StoredIds(store), rejectAt \in 0..1 :
        /\ store' = RemoveFromFavorites(store, recipeId, rejectAt # 1).st
        /\ UNCHANGED <<available, now, ctx, ui>>

CallIsRecipeFavorited ==
    \E recipeId \in RecipeIds \cup StoredIds(store) :
        /\ store' = IsRecipeFavorited(store, recipeId).st
        /\ UNCHANGED <<available, now, ctx, ui>>

CallLoadFavorites ==
    /\ store' = LoadFavorites(store).st
    /\ UNCHANGED <<available, now, ctx, ui>>

CallSaveFavorites ==
    \E favoritesData \in FavoritesDatas, rejectAt \in 0..1 :
        LET r == SaveFavorites(store, favoritesData, rejectAt # 1) IN
        /\ StoredItems(r.st) <= MaxItems
        /\ store' = r.st
        /\ UNCHANGED <<available, now, ctx, ui>>

CallToggleFavorite(cap) ==
    \E recipe \in Recipes, rejectAt \in 0..1 :
        /\ StoredItems(store) < cap
              \/ IsRecipeFavorited(store, Get(recipe, "id")).ret.b
        /\ store' = ToggleFavorite(store, recipe, rejectAt # 1).st
        /\ UNCHANGED <<available, now, ctx, ui>>

CallSaveDraft ==
    \E draftData \in DraftValues, draftId \in DraftIds, rejectAt \in 0..2 :
        /\ rejectAt = 2 => ~IsSingleton(draftId)
        /\ \/ store[DraftKey(draftId)] # JNull
           \/ StoredItems(store) < MaxItems
        /\ store' = SaveDraft(store, draftData, draftId, rejectAt).st
        /\ UNCHANGED <<available, now, ctx, ui>>

CallLoadDraft ==
    \E draftId \in DraftIds :
        /\ store' = LoadDraft(store, draftId).st
        /\ UNCHANGED <<available, now, ctx, ui>>

CallDeleteDraft ==
    \E draftId \in DraftIds :
        /\ store' = DeleteDraft(store, draftId).st
        /\ UNCHANGED <<available, now, ctx, ui>>

CallHasDraft ==
    \E draftId \in DraftIds :
        /\ store' = HasDraft(store, draftId).st
        /\ UNCHANGED <<available, now, ctx, ui>>

CallGetDraftTimestamp ==
    \E draftId \in DraftIds :
        /\ store' = GetDraftTimestamp(store, draftId).st
        /\ UNCHANGED <<available, now, ctx, ui>>

CallSaveReview(cap) ==
    \E reviewData \in FullReviewDatas, rejectAt \in 0..1 :
        /\ StoredItems(store) < cap
        /\ store' = SaveReview(store, reviewData, rejectAt # 1).st
        /\ UNCHANGED <<available, now, ctx, ui>>

CallLoadUserReviews ==
    \E userIdentifier \in UserIdentifiers :
        /\ store' = LoadUserReviews(store, userIdentifier).st
        /\ UNCHANGED <<available, now, ctx, ui>>

CallCreateReview ==
    \E recipeId \in RecipeIds, reviewData \in ReviewDatas,
       outcome \in RemoteOutcomes, rejectAt \in 0..1 :
        /\ StoredItems(store) < MaxReviews
        /\ store' = CreateReview(store, recipeId, reviewData, outcome,
                                 rejectAt # 1).st
        /\ UNCHANGED <<available, now, ctx, ui>>

CallGetReviews ==
    \E recipeId \in RecipeIds, outcome \in RemoteOutcomes :
        /\ store' = GetReviews(store, recipeId, outcome).st
        /\ UNCHANGED <<available, now, ctx, ui>>

\* The review identifiers handed to updateReview / deleteReview: the ones of
\* the locally stored reviews and one known to the server only.
ReviewIds(st) ==
    {Get(StoredReviews(st)[i], "id") : i \in DOMAIN StoredReviews(st)}
        \cup {Str("srv1")}

CallUpdateReview ==
    \E reviewId \in ReviewIds(store), reviewData \in ReviewDatas,
       outcome \in RemoteOutcomes :
        /\ store' = UpdateReview(store, reviewId, reviewData, outcome).st
        /\ UNCHANGED <<available, now, ctx, ui>>

CallDeleteReview ==
    \E reviewId \in ReviewIds(store), outcome \in RemoteOutcomes :
        /\ store' = DeleteReview(store, reviewId, outcome).st
        /\ UNCHANGED <<available, now, ctx, ui>>

(***************************************************************************)
(* Spec: the twelve store functions called in any order, on a store that   *)
(* may be unavailable or may already hold foreign content.  No call of     *)
(* this specification depends on how much time passes between the calls:   *)
(* the clock stands still.                                                 *)
(***************************************************************************)
Init ==
    /\ available \in BOOLEAN
    /\ store \in (IF available THEN {EmptyStore} \cup ForeignStores
                  ELSE {EmptyStore})
    /\ now = Epoch
    /\ ctx = [c \in Contexts |-> Idle]
    /\ ui = NoUi

Next ==
    \/ CallSaveDraft
    \/ CallLoadDraft
    \/ CallDeleteDraft
    \/ CallHasDraft
    \/ CallGetDraftTimestamp
    \/ CallSaveReview(MaxItems)
    \/ CallLoadUserReviews
    \/ CallSaveFavorites
    \/ CallLoadFavorites
    \/ CallAddToFavorites(MaxItems)
    \/ CallRemoveFromFavorites
    \/ CallIsRecipeFavorited

Spec == Init /\ [][Next]_vars

(***************************************************************************)
(* SpecDrafts: the draft functions, with the clock running, on a store     *)
(* whose draft records may be malformed.                                   *)
(***************************************************************************)
InitDrafts ==
    /\ available \in BOOLEAN
    /\ store \in (IF available
                  THEN {EmptyStore} \cup
                       {[EmptyStore EXCEPT ![DraftKey(d)] = Malformed] :
                           d \in DraftIds}
                  ELSE {EmptyStore})
    /\ now = Epoch
    /\ ctx = [c \in Contexts |-> Idle]
    /\ ui = NoUi

NextDrafts ==
    \/ Tick
    \/ CallSaveDraft
    \/ CallLoadDraft
    \/ CallDeleteDraft
    \/ CallHasDraft
    \/ CallGetDraftTimestamp

SpecDrafts == InitDrafts /\ [][NextDrafts]_vars

(***************************************************************************)
(* SpecFav: addToFavorites, removeFromFavorites and toggleFavorite called  *)
(* in any order, starting from an empty store.                             *)
(***************************************************************************)
InitFav ==
    /\ store = EmptyStore
    /\ available \in BOOLEAN
    /\ now = Epoch
    /\ ctx = [c \in Contexts |-> Idle]
    /\ ui = NoUi

NextFav ==
    \/ Tick
    \/ CallAddToFavorites(MaxFavs)
    \/ CallRemoveFromFavorites
    \/ CallToggleFavorite(MaxFavs)

SpecFav == InitFav /\ [][NextFav]_vars

(***************************************************************************)
(* SpecLegacy: the favorites functions on a store whose favorites record   *)
(* was left by an earlier version or by another program: any JSON value.   *)
(***************************************************************************)
LegacyContents ==
    { EmptyArr, Arr(<<LegacyEntry>>), Obj([items |-> Arr(<<LegacyEntry>>)]),
      EmptyObj, JNull, Num(5), Str("soto"), Obj([items |-> Str("soto")]),
      Obj([items |-> Obj([count |-> Num(1)])]) }

InitLegacy ==
    /\ store \in {[EmptyStore EXCEPT ![FAVORITES_KEY] = JsonText(content)] :
                     content \in LegacyContents}
    /\ available = TRUE
    /\ now = Epoch
    /\ ctx = [c \in Contexts |-> Idle]
    /\ ui = NoUi

NextLegacy ==
    \/ Tick
    \/ CallLoadFavorites
    \/ CallAddToFavorites(MaxFavs)
    \/ CallRemoveFromFavorites

SpecLegacy == InitLegacy /\ [][NextLegacy]_vars

(***************************************************************************)
(* SpecReviews: the review service, on a reviews record that may be        *)
(* malformed or no array.                                                  *)
(***************************************************************************)
InitReviews ==
    /\ available \in BOOLEAN
    /\ store \in (IF available
                  THEN {EmptyStore} \cup
                       {[EmptyStore EXCEPT ![REVIEWS_KEY] = c] :
                           c \in {Malformed, JsonText(EmptyObj)}}
                  ELSE {EmptyStore})
    /\ now = Epoch
    /\ ctx = [c \in Contexts |-> Idle]
    /\ ui = NoUi

NextReviews ==
    \/ Tick
    \/ CallCreateReview
    \/ CallGetReviews
    \/ CallSaveReview(MaxReviews)
    \/ CallUpdateReview
    \/ CallDeleteReview

SpecReviews == InitReviews /\ [][NextReviews]_vars

(***************************************************************************)
(* SpecPoll: ProfilePage mounted, its two subscriptions polling the store  *)
(* while favorites and reviews are written.                                *)
(***************************************************************************)
AgeCap == 2 * POLL_INTERVAL

Min(a, b) == IF a < b THEN a ELSE b

\* A call on the store ends: the store is what it leaves, and the age of
\* every subscribed key whose content it changed starts again.
StoreBecomes(st) ==
    /\ store' = st
    /\ ui' = [ui EXCEPT !.age = [s \in Subscribers |->
                 IF st[SubscribedKey(s)] # store[SubscribedKey(s)]
                 THEN 0 ELSE ui.age[s]]]
    /\ UNCHANGED <<available, now, ctx>>

PollAddToFavorites ==
    \E recipe \in Recipes, rejectAt \in 0..1 :
        /\ StoredItems(store) < MaxItems
        /\ StoreBecomes(AddToFavorites(store, recipe, rejectAt # 1).st)

\* handleRemoveFavorite of the page, or any other caller
PollRemoveFromFavorites ==
    \E recipeId \in StoredIds(store) :
        StoreBecomes(RemoveFromFavorites(store, recipeId, TRUE).st)

PollSaveReview ==
    \E reviewData \in FullReviewDatas :
        /\ StoredItems(store) < MaxItems
        /\ StoreBecomes(SaveReview(store, reviewData, TRUE).st)

\* deleteDraft("user_favorites") removes the favorites key.
PollRemoveKey ==
    /\ store[FAVORITES_KEY] # JNull
    /\ StoreBecomes(DeleteDraft(store, FAVORITES_KEY).st)

\* Something other than this application (another program of the origin,
\* the user in the developer tools) leaves text that is no JSON under the
\* reviews key.
ForeignReviewsWrite ==
    /\ store[REVIEWS_KEY] # Malformed
    /\ StoreBecomes([store EXCEPT ![REVIEWS_KEY] = Malformed])

\* The user removes one of the reviews the page lists.  When the handler
\* throws, neither the store nor the state of the page changes.
PollHandleRemoveReview ==
    \E username \in UserIdentifiers :
      \E i \in DOMAIN UserReviews(ui.value["reviewsFromStorage"], username) :
        LET reviewId == Get(UserReviews(ui.value["reviewsFromStorage"],
                                        username)[i], "id")
            r == HandleRemoveReview(store, reviewId, username, TRUE) IN
        /\ store' = r.st
        /\ ui' = [ui EXCEPT
                    !.age = [s \in Subscribers |->
                               IF r.st[SubscribedKey(s)] # store[SubscribedKey(s)]
                               THEN 0 ELSE ui.age[s]],
                    !.renderPending = @ \/ ~r.threw]
        /\ UNCHANGED <<available, now, ctx>>

\* Time passes: no timer is due and no render is pending.
Elapse ==
    /\ ~ui.renderPending
    /\ \A s \in Subscribers : ui.timer[s] < POLL_INTERVAL
    /\ ui' = [ui EXCEPT
                !.timer = [s \in Subscribers |-> ui.timer[s] + Quantum],
                !.age = [s \in Subscribers |-> Min(ui.age[s] + Quantum, AgeCap)]]
    /\ UNCHANGED <<store, available, now, ctx>>

\* The interval callback of subscription s runs: it reads the store and
\* sets the state.  A value just parsed is a new object, so the state
\* changes and the page renders again.
PollTimerFires(s) ==
    LET newValue == ReadSubscribed(store, SubscribedKey(s), InitialValue(s),
                                   ui.value[s]) IN
    /\ ui.timer[s] >= POLL_INTERVAL
    /\ ui' = [ui EXCEPT
                !.value[s] = newValue,
                !.timer[s] = 0,
                !.renderPending = @ \/ store[SubscribedKey(s)] # JNull
                                    \/ newValue # ui.value[s]]
    /\ UNCHANGED <<store, available, now, ctx>>

\* Another state of the page changes (a keystroke in the profile form,
\* a tab selected): the page renders again.
OtherStateChange ==
    /\ ~ui.renderPending
    /\ \A s \in Subscribers : ui.timer[s] < POLL_INTERVAL
    /\ ui' = [ui EXCEPT !.renderPending = TRUE]
    /\ UNCHANGED <<store, available, now, ctx>>

\* The page renders.  The literal [] of the new render is a new array, so
\* the dependencies [key, initialValue] of both polling effects have
\* changed: each effect clears its interval and sets a new one.  A timer
\* that is already due runs its callback before the effects are cleaned up.
Rerender ==
    /\ ui.renderPending
    /\ \A s \in Subscribers : ui.timer[s] < POLL_INTERVAL
    /\ ui' = [ui EXCEPT !.renderPending = FALSE,
                        !.timer = [s \in Subscribers |-> 0]]
    /\ UNCHANGED <<store, available, now, ctx>>

InitPoll ==
    /\ store = EmptyStore
    /\ available = TRUE
    /\ now = Epoch
    /\ ctx = [c \in Contexts |-> Idle]
    /\ ui = MountedPage(store)

NextPoll ==
    \/ PollAddToFavorites
    \/ PollRemoveFromFavorites
    \/ PollSaveReview
    \/ PollRemoveKey
    \/ ForeignReviewsWrite
    \/ PollHandleRemoveReview
    \/ Elapse
    \/ \E s \in Subscribers : PollTimerFires(s)
    \/ OtherStateChange
    \/ Rerender

SpecPoll == InitPoll /\ [][NextPoll]_vars

(***************************************************************************)
(* SpecMutation: recipe queries fill the cache while favorite toggle       *)
(* mutations run, one at a time.                                           *)
(***************************************************************************)
\* A recipe as the server returns it.
ServerRecipe(id, isFavorite) ==
    Obj([id |-> id, name |-> Str("Soto"), is_favorite |-> Bool(isFavorite)])

RecipeEnvelope(id, isFavorite) ==
    Obj([success |-> Bool(TRUE), data |-> ServerRecipe(id, isFavorite)])

RecipesEnvelope(isFavorite) ==
    Obj([success |-> Bool(TRUE),
         data |-> Arr(<<ServerRecipe(Num(1), isFavorite)>>)])

\* What the server answers to favorite / unfavorite of recipeId.
FavoriteOutcomes(variables) ==
    { [kind |-> "response", status |-> 200,
       data |-> RecipeEnvelope(variables.recipeId, ~variables.isFavorite.b)],
      [kind |-> "response", status |-> 200, data |-> NoSuccessNoData],
      [kind |-> "response", status |-> 500, data |-> ErrorPayload],
      [kind |-> "network", status |-> 0, data |-> Undef] }

\* The server confirmed the toggle.
ServerConfirmed(outcome) ==
    /\ ~RemoteFailed(outcome)
    /\ Truthy(Get(outcome.data, "success"))

EmptyCache ==
    [recipe |-> [id \in RecipeIds |-> Undef], recipes |-> Undef,
     recipesStale |-> FALSE]

NoMutation == [pc |-> "idle", variables |-> Undef, context |-> Undef]

\* useRecipe(id): the query of a recipe succeeds and its response is cached.
RecipeFetched ==
    \E id \in RecipeIds, isFavorite \in BOOLEAN :
        /\ ui' = [ui EXCEPT !.cache.recipe[id] = RecipeEnvelope(id, isFavorite)]
        /\ UNCHANGED <<store, available, now, ctx>>

\* useRecipes(): the list query succeeds.
RecipesFetched ==
    \E isFavorite \in BOOLEAN :
        /\ ui' = [ui EXCEPT !.cache.recipes = RecipesEnvelope(isFavorite),
                            !.cache.recipesStale = FALSE]
        /\ UNCHANGED <<store, available, now, ctx>>

\* toggleFavorite({recipeId, isFavorite}) is called: onMutate runs.
MutationStarts ==
    \E recipeId \in RecipeIds, isFavorite \in BOOLEAN :
        LET variables == [recipeId |-> recipeId, isFavorite |-> Bool(isFavorite)]
            m == OnMutate(ui.cache, variables) IN
        /\ ui.mutation.pc = "idle"
        /\ ui' = [ui EXCEPT !.cache = m.cache,
                            !.mutation = [pc |-> "pending",
                                          variables |-> variables,
                                          context |-> m.context]]
        /\ UNCHANGED <<store, available, now, ctx>>

\* mutationFn ends and onSuccess or onError runs.
MutationSettles ==
    /\ ui.mutation.pc = "pending"
    /\ \E outcome \in FavoriteOutcomes(ui.mutation.variables) :
           ui' = [ui EXCEPT
                    !.cache = SettledCache(ui.cache, ui.mutation.variables,
                                           ui.mutation.context, outcome),
                    !.mutation = NoMutation]
    /\ UNCHANGED <<store, available, now, ctx>>

InitMutation ==
    /\ store = EmptyStore
    /\ available = TRUE
    /\ now = Epoch
    /\ ctx = [c \in Contexts |-> Idle]
    /\ ui = [mounted |-> TRUE, cache |-> EmptyCache, mutation |-> NoMutation]

NextMutation ==
    \/ RecipeFetched
    \/ RecipesFetched
    \/ MutationStarts
    \/ MutationSettles

SpecMutation == InitMutation /\ [][NextMutation]_vars

(***************************************************************************)
(* SpecNormalize: normalizeRecipeData applied to the recipes an API        *)
(* response may carry.                                                     *)
(***************************************************************************)
\* An object with the properties of fields that are not undefined.
Defined(fields) ==
    Obj([f \in {g \in DOMAIN fields : fields[g] # Undef} |-> fields[f]])

\* Values a numeric field of a response may hold: missing, null, negative,
\* zero, positive, and strings with and without digits.
RawNumbers ==
    {Undef, JNull, Num(0 - 5), Num(0), Num(15), Str("abc"), Str("20"),
     Str("-3"), Str(" 7 menit")}

RawNames == {Undef, Str(""), Str("Soto")}

RawLists ==
    {Undef, JNull, EmptyArr,
     Arr(<<Obj([name |-> Str("garam")])>>),
     Arr(<<Obj([id |-> Num(9), instruction |-> Str("aduk")])>>),
     Arr(<<JNull>>)}

RawRecipes ==
    {Defined([id |-> Num(1), name |-> name, prep_time |-> time,
              cook_time |-> Num(30), servings |-> servings,
              ingredients |-> list, steps |-> EmptyArr])
        : name \in RawNames, time \in RawNumbers, servings \in RawNumbers,
          list \in RawLists}
    \cup
    {Defined([id |-> Num(2), name |-> Str("Rawon"), cook_time |-> time,
              steps |-> list])
        : time \in RawNumbers, list \in RawLists}

\* The numbers Math.random() returns during one call
RandomDraws == {<<"0.25", "0.75">>, <<"0.5", "0.5">>}

NotNormalized == [threw |-> FALSE, ret |-> Undef]

\* A response carrying some recipe arrives.
RecipeArrives ==
    /\ \E recipe \in RawRecipes :
          ui' = [mounted |-> FALSE, recipe |-> recipe, done |-> FALSE,
                 normalized |-> NotNormalized]
    /\ UNCHANGED <<store, available, now, ctx>>

\* The service normalizes the recipe of the response.
Normalize ==
    /\ ~ui.done
    /\ \E random \in RandomDraws :
          ui' = [ui EXCEPT !.done = TRUE,
                           !.normalized = NormalizeRecipeData(ui.recipe, random)]
    /\ UNCHANGED <<store, available, now, ctx>>

InitNormalize ==
    /\ store = EmptyStore
    /\ available = TRUE
    /\ now = Epoch
    /\ ctx = [c \in Contexts |-> Idle]
    /\ \E recipe \in RawRecipes :
          ui = [mounted |-> FALSE, recipe |-> recipe, done |-> FALSE,
                normalized |-> NotNormalized]

NextNormalize ==
    \/ RecipeArrives
    \/ Normalize

SpecNormalize == InitNormalize /\ [][NextNormalize]_vars

(***************************************************************************)
(* SpecEdit: the form of EditRecipePage.  The user edits the fields and    *)
(* presses Simpan; the requests the submission issues are recorded.        *)
(***************************************************************************)
MaxFormItems == 1

\* The state of formData before the recipe is loaded
BlankForm ==
    Obj([name |-> Str(""), description |-> Str(""), category |-> Str("makanan"),
         difficulty |-> Str("mudah"), prep_time |-> Num(0), cook_time |-> Num(0),
         servings |-> Num(1), image_url |-> Str(""), ingredients |-> EmptyArr,
         steps |-> EmptyArr])

\* The recipe being edited, as the server holds it
EditedRecipe ==
    Obj([id |-> Num(1), name |-> Str("Soto"), description |-> Str("Kuah"),
         prep_time |-> Num(10), cook_time |-> Num(30), servings |-> Num(4),
         image_url |-> Str("soto.jpg"), created_at |-> Str("T0"),
         updated_at |-> Str("T0"), average_rating |-> JNull,
         ingredients |-> Arr(<<Obj([id |-> Str("i1"), name |-> Str("ayam"),
                                    quantity |-> Str("1 ekor")])>>),
         steps |-> Arr(<<Obj([id |-> Str("s1"), step_number |-> Num(1),
                              instruction |-> Str("rebus")])>>)])

\* What the fetch of the current recipe can end with
FetchOutcomes ==
    { [kind |-> "response", status |-> 200,
       data |-> Obj([success |-> Bool(TRUE), data |-> EditedRecipe])],
      [kind |-> "response", status |-> 200, data |-> NoSuccessNoData],
      [kind |-> "network", status |-> 0, data |-> Undef] }

\* What the user may type into a text field
TextInputs(name) == IF name = "name" THEN {"", " ", "Soto"} ELSE {"", "Kuah"}
NumberInputs == {"", "-5", "0", "10"}

Edited(formData) ==
    [mounted |-> TRUE, formData |-> formData, submitted |-> FALSE,
     requests |-> <<>>, first |-> Undef]

\* The recipe as the server holds it when its steps carry no step_number
UnnumberedRecipe ==
    Obj(With(EditedRecipe.o, "steps",
             Arr(<<Obj([id |-> Str("s1"), instruction |-> Str("rebus")])>>)))

\* What the fetch of useRecipe can end with
LoadOutcomes ==
    FetchOutcomes \cup
    { [kind |-> "response", status |-> 200,
       data |-> Obj([success |-> Bool(TRUE), data |-> UnnumberedRecipe])] }

\* fetchRecipe of useRecipe: the recipe state after the fetch ended with
\* outcome (null when it failed)
UseRecipe(outcome, random) ==
    LET response == GetRecipeById(outcome, random) IN
    IF response.threw \/ ~Truthy(Get(response.ret, "success")) THEN JNull
    ELSE LET data == Get(response.ret, "data") IN
         Obj([f \in {"ingredients", "steps", "image_url"} |->
                CASE f = "ingredients" -> Or(Get(data, "ingredients"), EmptyArr)
                  [] f = "steps" -> Or(Get(data, "steps"), EmptyArr)
                  [] f = "image_url" ->
                       Or(Get(data, "image_url"),
                          Or(Get(data, "image"), Str("/placeholder-recipe.jpg")))]
             @@ Spread(data))

\* The effect that fills the form when the recipe has been loaded
RecipeLoaded ==
    /\ \E outcome \in LoadOutcomes, random \in RandomDraws :
          LET recipe == UseRecipe(outcome, random) IN
          /\ Truthy(recipe)
          /\ ui' = Edited(Obj(
                [f \in DOMAIN BlankForm.o |->
                   Or(Get(recipe, f), BlankForm.o[f])]))
    /\ UNCHANGED <<store, available, now, ctx>>

HandleInputChange ==
    /\ \E name \in {"name", "description"} : \E value \in TextInputs(name) :
          ui' = Edited(Obj(With(ui.formData.o, name, Str(value))))
    /\ UNCHANGED <<store, available, now, ctx>>

HandleNumberInputChange ==
    /\ \E name \in {"prep_time", "servings"}, value \in NumberInputs :
          ui' = Edited(Obj(With(ui.formData.o, name, NumberOr(Str(value), 0))))
    /\ UNCHANGED <<store, available, now, ctx>>

HandleAddIngredient ==
    /\ Len(Get(ui.formData, "ingredients").a) < MaxFormItems
    /\ \E name \in {" ", "garam "}, quantity \in {"", "1 sdt"} :
          /\ Trim(name) # "" /\ Trim(quantity) # ""
          /\ ui' = Edited(Obj(With(ui.formData.o, "ingredients",
                   Arr(Get(ui.formData, "ingredients").a
                       \o <<Obj([id |-> Str(ToString(now)),
                                 name |-> Str(Trim(name)),
                                 quantity |-> Str(Trim(quantity))])>>))))
    /\ UNCHANGED <<store, available, now, ctx>>

HandleRemoveIngredient ==
    /\ \E index \in DOMAIN Get(ui.formData, "ingredients").a :
          LET list == Get(ui.formData, "ingredients").a IN
          ui' = Edited(Obj(With(ui.formData.o, "ingredients",
                   Arr(SelectList(list, [i \in DOMAIN list |-> i # index])))))
    /\ UNCHANGED <<store, available, now, ctx>>

NewSteps == {" ", " aduk"}

\* The steps of the form after handleAddStep with newStep typed
StepsAfterAdd(steps, newStep) ==
    IF Trim(newStep) = "" THEN steps
    ELSE steps \o <<Obj([id |-> Str(ToString(now)),
                         step_number |-> Num(Len(steps) + 1),
                         instruction |-> Str(Trim(newStep))])>>

\* The steps of the form after handleRemoveStep(index): the others,
\* numbered again from 1
StepsAfterRemove(steps, index) ==
    LET kept == SelectList(steps, [i \in DOMAIN steps |-> i # index]) IN
    [i \in DOMAIN kept |-> Obj(With(kept[i].o, "step_number", Num(i)))]

HandleAddStep ==
    /\ Len(Get(ui.formData, "steps").a) < MaxFormItems
    /\ \E newStep \in NewSteps :
          /\ Trim(newStep) # ""
          /\ ui' = Edited(Obj(With(ui.formData.o, "steps",
                   Arr(StepsAfterAdd(Get(ui.formData, "steps").a, newStep)))))
    /\ UNCHANGED <<store, available, now, ctx>>

HandleRemoveStep ==
    /\ \E index \in DOMAIN Get(ui.formData, "steps").a :
          ui' = Edited(Obj(With(ui.formData.o, "steps",
                   Arr(StepsAfterRemove(Get(ui.formData, "steps").a, index)))))
    /\ UNCHANGED <<store, available, now, ctx>>

HandleStepChange ==
    /\ \E index \in DOMAIN Get(ui.formData, "steps").a, value \in {" ", "aduk"} :
          LET list == Get(ui.formData, "steps").a IN
          ui' = Edited(Obj(With(ui.formData.o, "steps",
                   Arr([list EXCEPT ![index] =
                          Obj(With(list[index].o, "instruction", Str(value)))]))))
    /\ UNCHANGED <<store, available, now, ctx>>

HandleSubmit ==
    /\ \E first \in FetchOutcomes, second \in FetchOutcomes, random \in RandomDraws :
          ui' = [ui EXCEPT !.submitted = TRUE,
                           !.first = first,
                           !.requests = HandleSubmitRequests(ui.formData, first,
                                                             second, random)]
    /\ UNCHANGED <<store, available, now, ctx>>

InitEdit ==
    /\ store = EmptyStore
    /\ available = TRUE
    /\ now = Epoch
    /\ ctx = [c \in Contexts |-> Idle]
    /\ ui = Edited(BlankForm)

NextEdit ==
    \/ RecipeLoaded
    \/ HandleInputChange
    \/ HandleNumberInputChange
    \/ HandleAddIngredient
    \/ HandleRemoveIngredient
    \/ HandleAddStep
    \/ HandleRemoveStep
    \/ HandleStepChange
    \/ HandleSubmit

SpecEdit == InitEdit /\ [][NextEdit]_vars

(***************************************************************************)
(* SpecRequest: calls of apiClient in flight.  Each of two call slots is   *)
(* idle, pending since some time, or settled.  The server may answer a     *)
(* pending call, the network may fail, and the timer of the client fires   *)
(* when the call has been pending for TIMEOUT milliseconds.                *)
(***************************************************************************)
TIMEOUT == 10000          \* timeout: 10000, in milliseconds
RequestQuantum == 2500    \* the step in which time is observed, in milliseconds

Calls == {"call1", "call2"}

NoCall == [pc |-> "idle", elapsed |-> 0, outcome |-> Undef, value |-> Undef]

ServerAnswers == {outcome \in RemoteOutcomes : outcome.kind = "response"}

Settled(outcome) ==
    [pc |-> ApiClient(outcome).settled, elapsed |-> 0, outcome |-> outcome,
     value |-> ApiClient(outcome).value]

\* apiClient.get / post / put / delete is called.
SendRequest(c) ==
    /\ ui.calls[c].pc # "pending"
    /\ ui' = [ui EXCEPT !.calls[c] = [NoCall EXCEPT !.pc = "pending"]]
    /\ UNCHANGED <<store, available, now, ctx>>

\* The response of the server arrives before the timer fires.
ResponseArrives(c) ==
    /\ ui.calls[c].pc = "pending"
    /\ ui.calls[c].elapsed < TIMEOUT
    /\ \E outcome \in ServerAnswers : ui' = [ui EXCEPT !.calls[c] = Settled(outcome)]
    /\ UNCHANGED <<store, available, now, ctx>>

\* The connection fails before the timer fires.
NetworkFails(c) ==
    /\ ui.calls[c].pc = "pending"
    /\ ui.calls[c].elapsed < TIMEOUT
    /\ ui' = [ui EXCEPT !.calls[c] =
                 Settled([kind |-> "network", status |-> 0, data |-> Undef])]
    /\ UNCHANGED <<store, available, now, ctx>>

\* The timer of the client fires: the request is aborted.
TimeoutFires(c) ==
    /\ ui.calls[c].pc = "pending"
    /\ ui.calls[c].elapsed = TIMEOUT
    /\ ui' = [ui EXCEPT !.calls[c] =
                 Settled([kind |-> "timeout", status |-> 0, data |-> Undef])]
    /\ UNCHANGED <<store, available, now, ctx>>

\* Time passes, but not beyond the moment a timer is due.
RequestTimePasses ==
    /\ \E c \in Calls : ui.calls[c].pc = "pending"
    /\ \A c \in Calls :
          ui.calls[c].pc = "pending" => ui.calls[c].elapsed + RequestQuantum <= TIMEOUT
    /\ ui' = [ui EXCEPT !.calls =
                 [c \in Calls |->
                    IF ui.calls[c].pc = "pending"
                    THEN [ui.calls[c] EXCEPT !.elapsed = @ + RequestQuantum]
                    ELSE ui.calls[c]]]
    /\ UNCHANGED <<store, available, now, ctx>>

InitRequest ==
    /\ store = EmptyStore
    /\ available = TRUE
    /\ now = Epoch
    /\ ctx = [c \in Contexts |-> Idle]
    /\ ui = [mounted |-> FALSE, calls |-> [c \in Calls |-> NoCall]]

NextRequest ==
    \/ \E c \in Calls : SendRequest(c)
    \/ \E c \in Calls : ResponseArrives(c)
    \/ \E c \in Calls : NetworkFails(c)
    \/ \E c \in Calls : TimeoutFires(c)
    \/ RequestTimePasses

SpecRequest == InitRequest /\ [][NextRequest]_vars

(***************************************************************************)
(* useRecipes and useRecipe (hooks/useRecipes.js) with several fetches in  *)
(* flight.  ui.list is the state of useRecipes, ui.single the state of     *)
(* useRecipe, ui.fetches the calls of fetchRecipes / fetchRecipe in the    *)
(* order they were issued.                                                 *)
(***************************************************************************)
MaxFetches == 3

FetchedIds == {1, 2}
Categories == {"", "makanan"}

ServedRecipe(id) ==
    Obj([id |-> Num(id), name |-> Str(IF id = 1 THEN "Soto" ELSE "Es teh")])

\* What GET /api/v1/recipes/:id can end with
RecipeAnswers(id) ==
    { [kind |-> "response", status |-> 200,
       data |-> Obj([success |-> Bool(TRUE), data |-> ServedRecipe(id)])],
      [kind |-> "response", status |-> 200, data |-> NoSuccessNoData],
      [kind |-> "network", status |-> 0, data |-> Undef] }

\* What GET /api/v1/recipes?category=... can end with
ListAnswers(category) ==
    { [kind |-> "response", status |-> 200,
       data |-> Obj([success |-> Bool(TRUE),
                     data |-> Arr(IF category = ""
                                  THEN <<ServedRecipe(1), ServedRecipe(2)>>
                                  ELSE <<ServedRecipe(1)>>),
                     pagination |-> Obj([total |-> Num(IF category = "" THEN 2 ELSE 1)])])],
      [kind |-> "response", status |-> 200, data |-> NoSuccessNoData],
      [kind |-> "network", status |-> 0, data |-> Undef] }

\* recipeService.getRecipes: [threw, ret]
GetRecipes(outcome, random) ==
    LET response == ApiClient(outcome) IN
    IF response.settled = "rejected" THEN [threw |-> TRUE, ret |-> response.value]
    ELSE LET inner == Get(Get(response.value, "data"), "data") IN
    IF Truthy(Get(response.value, "data")) /\ Truthy(inner)
    THEN IF ~IsArray(inner)
            \/ \E i \in DOMAIN inner.a : NormalizeRecipeData(inner.a[i], random).threw
         THEN [threw |-> TRUE, ret |-> Undef]
         ELSE [threw |-> FALSE,
               ret |-> Obj(With(response.value.o, "data",
                           Obj(With(Get(response.value, "data").o, "data",
                               Arr([i \in DOMAIN inner.a |->
                                      NormalizeRecipeData(inner.a[i], random).ret])))))]
    ELSE [threw |-> FALSE, ret |-> response.value]

\* The recipe of the list with its data structure completed
CompleteRecipe(recipe) ==
    Obj([f \in {"ingredients", "steps", "image_url"} |->
           CASE f = "ingredients" -> Or(Get(recipe, "ingredients"), EmptyArr)
             [] f = "steps" -> Or(Get(recipe, "steps"), EmptyArr)
             [] f = "image_url" ->
                  Or(Get(recipe, "image_url"),
                     Or(Get(recipe, "image"), Str("/placeholder-recipe.jpg")))]
        @@ Spread(recipe))

\* fetchRecipes of useRecipes from the moment the response is there: the
\* state of the hook after the try / catch / finally
FetchRecipesEnded(h, outcome, random) ==
    LET response == GetRecipes(outcome, random) IN
    IF response.threw
    THEN [h EXCEPT !.error = Or(Get(response.ret, "message"),
                                Str("An error occurred while fetching recipes")),
                   !.recipes = EmptyArr, !.loading = FALSE]
    ELSE IF Truthy(Get(response.ret, "success"))
    THEN LET data == Or(Get(response.ret, "data"), EmptyArr) IN
         [h EXCEPT !.recipes = Arr([i \in DOMAIN data.a |-> CompleteRecipe(data.a[i])]),
                   !.pagination = Or(Get(response.ret, "pagination"), JNull),
                   !.loading = FALSE]
    ELSE [h EXCEPT !.error = Or(Get(response.ret, "message"),
                                Str("Failed to fetch recipes")),
                   !.loading = FALSE]

\* fetchRecipe of useRecipe from the moment the response is there
FetchRecipeEnded(h, outcome, random) ==
    LET response == GetRecipeById(outcome, random) IN
    IF response.threw
    THEN [h EXCEPT !.error = Or(Get(response.ret, "message"),
                                Str("An error occurred while fetching recipe")),
                   !.recipe = JNull, !.loading = FALSE]
    ELSE IF Truthy(Get(response.ret, "success"))
    THEN [h EXCEPT !.recipe = UseRecipe(outcome, random), !.loading = FALSE]
    ELSE [h EXCEPT !.error = Or(Get(response.ret, "message"),
                                Str("Failed to fetch recipe")),
                   !.loading = FALSE]

\* A call of fetchRecipes / fetchRecipe that waits for its response
Issued(hook, key) ==
    [hook |-> hook, key |-> key, pc |-> "pending", outcome |-> Undef,
     random |-> <<>>]

\* fetchRecipes / fetchRecipe up to the await
Started(h) == [h EXCEPT !.loading = TRUE, !.error = JNull]

\* The params of useRecipes change: the effect calls the new fetchRecipes.
ParamsChange ==
    /\ Len(ui.fetches) < MaxFetches
    /\ \E category \in Categories \ {ui.list.params} :
          ui' = [ui EXCEPT !.list = [Started(@) EXCEPT !.params = category],
                           !.fetches = Append(@, Issued("useRecipes", category))]
    /\ UNCHANGED <<store, available, now, ctx>>

\* refetch of useRecipes is called.
RefetchRecipes ==
    /\ Len(ui.fetches) < MaxFetches
    /\ ui' = [ui EXCEPT !.list = Started(@),
                        !.fetches = Append(@, Issued("useRecipes", ui.list.params))]
    /\ UNCHANGED <<store, available, now, ctx>>

\* The id of useRecipe changes: the effect calls the new fetchRecipe.
IdChanges ==
    /\ Len(ui.fetches) < MaxFetches
    /\ \E id \in FetchedIds \ {ui.single.id} :
          ui' = [ui EXCEPT !.single = [Started(@) EXCEPT !.id = id],
                           !.fetches = Append(@, Issued("useRecipe", id))]
    /\ UNCHANGED <<store, available, now, ctx>>

\* refetch of useRecipe is called; without an id it only ends the loading.
RefetchRecipe ==
    /\ IF ui.single.id = 0
       THEN ui' = [ui EXCEPT !.single.loading = FALSE]
       ELSE /\ Len(ui.fetches) < MaxFetches
            /\ ui' = [ui EXCEPT !.single = Started(@),
                                !.fetches = Append(@, Issued("useRecipe", ui.single.id))]
    /\ UNCHANGED <<store, available, now, ctx>>

\* The response of a fetch arrives, whatever was issued after it.
FetchEnds(i) ==
    /\ ui.fetches[i].pc = "pending"
    /\ \E random \in RandomDraws :
       \E outcome \in (IF ui.fetches[i].hook = "useRecipes"
                       THEN ListAnswers(ui.fetches[i].key)
                       ELSE RecipeAnswers(ui.fetches[i].key)) :
          ui' = [ui EXCEPT
                   !.fetches[i] = [@ EXCEPT !.pc = "done", !.outcome = outcome,
                                            !.random = random],
                   !.list = IF ui.fetches[i].hook = "useRecipes"
                            THEN FetchRecipesEnded(@, outcome, random) ELSE @,
                   !.single = IF ui.fetches[i].hook = "useRecipe"
                              THEN FetchRecipeEnded(@, outcome, random) ELSE @]
    /\ UNCHANGED <<store, available, now, ctx>>

\* Both hooks are mounted: useRecipes has issued its first fetch, useRecipe
\* has no id yet.
InitFetch ==
    /\ store = EmptyStore
    /\ available = TRUE
    /\ now = Epoch
    /\ ctx = [c \in Contexts |-> Idle]
    /\ ui = [mounted |-> TRUE,
             list |-> [params |-> "", recipes |-> EmptyArr, loading |-> TRUE,
                       error |-> JNull, pagination |-> JNull],
             single |-> [id |-> 0, recipe |-> JNull, loading |-> FALSE,
                         error |-> JNull],
             fetches |-> <<Issued("useRecipes", "")>>]

NextFetch ==
    \/ ParamsChange
    \/ RefetchRecipes
    \/ IdChanges
    \/ RefetchRecipe
    \/ \E i \in DOMAIN ui.fetches : FetchEnds(i)

SpecFetch == InitFetch /\ [][NextFetch]_vars

(***************************************************************************)
(* The application shell (part_000): AppRoot with its mode state, and the  *)
(* routed shell with EditRecipeFromUrl.  ui.history is the browser history *)
(* of the routed shell (its last entry is the current route), ui.event the *)
(* last thing that happened on the edit page.                              *)
(***************************************************************************)
MaxHistory == 4

Pages == {"home", "makanan", "minuman", "profile"}
ShownRecipes == {1, 2}
UpdatedRecipes == { Obj([id |-> Num(1), category |-> Str("makanan")]),
                    Obj([id |-> Num(1)]) }

\* The props the shell passes to <EditRecipePage .../>
EditRecipePageProps(shell) ==
    IF shell = "AppRoot"
    THEN [recipeId |-> "editingRecipeId", onBack |-> "handleBack",
          onSuccess |-> "handleEditSuccess"]
    ELSE [recipeId |-> "id", onBack |-> "FromUrl.handleBack",
          onSuccess |-> "FromUrl.handleSuccess"]

\* function EditRecipePage({ recipeId, onSave, onCancel }): the value the page
\* finds under a name of its own
Prop(shell, name) ==
    IF name \in DOMAIN EditRecipePageProps(shell)
    THEN EditRecipePageProps(shell)[name] ELSE "undefined"

\* navigate(path)
Pushed(history, route) == Append(history, route)

\* navigate(-1)
WentBack(history) ==
    IF Len(history) > 1 THEN SubSeq(history, 1, Len(history) - 1) ELSE history

\* What the shell shows: list, detail, create or edit
Shown ==
    IF ui.shell = "AppRoot" THEN ui.mode ELSE ui.history[Len(ui.history)].view

\* AppRoot.handleBack
AppRootHandleBack(s) ==
    [s EXCEPT !.mode = "list", !.selectedRecipeId = 0, !.editingRecipeId = 0]

\* AppRoot.handleEditSuccess
HandleEditSuccess(s) == [s EXCEPT !.mode = "list"]

\* EditRecipeFromUrl.handleBack
FromUrlHandleBack(s) == [s EXCEPT !.history = WentBack(@)]

\* EditRecipeFromUrl.handleSuccess
FromUrlHandleSuccess(s, updatedRecipe) ==
    IF Truthy(updatedRecipe) /\ Truthy(Get(updatedRecipe, "category"))
    THEN [s EXCEPT !.history =
             Pushed(@, [view |-> "detail", id |-> s.history[Len(s.history)].id])]
    ELSE [s EXCEPT !.history = WentBack(@)]

\* Calling what the page holds under one of its props; undefined as onClick
\* or behind ?.() does nothing
Called(handler, s, argument) ==
    CASE handler = "handleBack" -> AppRootHandleBack(s)
      [] handler = "handleEditSuccess" -> HandleEditSuccess(s)
      [] handler = "FromUrl.handleBack" -> FromUrlHandleBack(s)
      [] handler = "FromUrl.handleSuccess" -> FromUrlHandleSuccess(s, argument)
      [] OTHER -> s

\* handleNavigation of either shell
HandleNavigation ==
    /\ Shown = "list"
    /\ \E page \in Pages :
          IF ui.shell = "AppRoot"
          THEN ui' = [ui EXCEPT !.currentPage = page, !.mode = "list",
                                !.selectedRecipeId = 0, !.editingRecipeId = 0,
                                !.event = "none"]
          ELSE /\ Len(ui.history) < MaxHistory
               /\ ui' = [ui EXCEPT !.history = Pushed(@, [view |-> "list", id |-> 0]),
                                   !.currentPage = page, !.event = "none"]
    /\ UNCHANGED <<store, available, now, ctx>>

\* handleRecipeClick of either shell
HandleRecipeClick ==
    /\ Shown = "list"
    /\ \E recipeId \in ShownRecipes :
          IF ui.shell = "AppRoot"
          THEN ui' = [ui EXCEPT !.selectedRecipeId = recipeId, !.mode = "detail",
                                !.event = "none"]
          ELSE /\ Len(ui.history) < MaxHistory
               /\ ui' = [ui EXCEPT !.history =
                                       Pushed(@, [view |-> "detail", id |-> recipeId]),
                                   !.event = "none"]
    /\ UNCHANGED <<store, available, now, ctx>>

\* handleEditRecipe of AppRoot, handleEdit of RecipeDetailFromUrl
HandleEditRecipe ==
    /\ Shown = "detail"
    /\ IF ui.shell = "AppRoot"
       THEN ui' = [ui EXCEPT !.editingRecipeId = ui.selectedRecipeId,
                             !.mode = "edit", !.event = "none"]
       ELSE /\ Len(ui.history) < MaxHistory
            /\ ui' = [ui EXCEPT !.history =
                                    Pushed(@, [view |-> "edit",
                                               id |-> ui.history[Len(ui.history)].id]),
                                !.event = "none"]
    /\ UNCHANGED <<store, available, now, ctx>>

\* handleBack of the detail page
DetailHandleBack ==
    /\ Shown = "detail"
    /\ ui' = [(IF ui.shell = "AppRoot" THEN AppRootHandleBack(ui)
               ELSE FromUrlHandleBack(ui)) EXCEPT !.event = "none"]
    /\ UNCHANGED <<store, available, now, ctx>>

\* The Batal button of the edit page is pressed: onClick={onCancel}.
CancelPressed ==
    /\ Shown = "edit"
    /\ ui' = [Called(Prop(ui.shell, "onCancel"), ui, Undef) EXCEPT !.event = "cancel"]
    /\ UNCHANGED <<store, available, now, ctx>>

\* handleSubmit of the edit page from the moment updateRecipe has returned:
\* after a result, refetch and onSave?.(result).
SubmitEnds ==
    /\ Shown = "edit"
    /\ \E result \in UpdatedRecipes \cup {JNull} :
          IF Truthy(result)
          THEN ui' = [Called(Prop(ui.shell, "onSave"), ui, result)
                        EXCEPT !.event = "saved"]
          ELSE ui' = [ui EXCEPT !.event = "saveFailed"]
    /\ UNCHANGED <<store, available, now, ctx>>

\* The back button of the browser
BrowserBack ==
    /\ ui.shell = "AppWithRouter"
    /\ Len(ui.history) > 1
    /\ ui' = [ui EXCEPT !.history = WentBack(@), !.event = "none"]
    /\ UNCHANGED <<store, available, now, ctx>>

InitShell ==
    /\ store = EmptyStore
    /\ available = TRUE
    /\ now = Epoch
    /\ ctx = [c \in Contexts |-> Idle]
    /\ \E shell \in {"AppRoot", "AppWithRouter"} :
          ui = [mounted |-> TRUE, shell |-> shell, currentPage |-> "home",
                mode |-> "list", selectedRecipeId |-> 0, editingRecipeId |-> 0,
                history |-> <<[view |-> "list", id |-> 0]>>, event |-> "none"]

NextShell ==
    \/ HandleNavigation
    \/ HandleRecipeClick
    \/ HandleEditRecipe
    \/ DetailHandleBack
    \/ CancelPressed
    \/ SubmitEnds
    \/ BrowserBack

SpecShell == InitShell /\ [][NextShell]_vars

(***************************************************************************)
(* useFavorites and useIsFavorited (hooks/useFavorites.js): several hook  *)
(* instances over the one store.  ui.hooks[h] is the state of an instance; *)
(* effect tells that its mount effect has not run yet.                     *)
(***************************************************************************)
Instances == {"h1", "h2"}

Unmounted == [mounted |-> FALSE, effect |-> FALSE, favorites |-> EmptyArr,
              loading |-> TRUE]

\* fetchFavorites: the state of the instance after it
FetchFavorites(h, st) ==
    [h EXCEPT !.favorites = Or(LoadFavorites(st).ret, EmptyArr),
              !.loading = FALSE]

\* A component that uses the hook is mounted: the effect is scheduled.
MountHook(h) ==
    /\ ~ui.hooks[h].mounted
    /\ ui' = [ui EXCEPT !.hooks[h] = [Unmounted EXCEPT !.mounted = TRUE,
                                                        !.effect = TRUE]]
    /\ UNCHANGED <<store, available, now, ctx>>

\* The mount effect runs fetchFavorites.
MountEffect(h) ==
    /\ ui.hooks[h].effect
    /\ ui' = [ui EXCEPT !.hooks[h] = [FetchFavorites(@, store) EXCEPT !.effect = FALSE]]
    /\ UNCHANGED <<store, available, now, ctx>>

\* useFavorites().addFavorite(recipe) of one instance
AddFavorite(h) ==
    /\ ui.hooks[h].mounted
    /\ StoredItems(store) < MaxFavs
    /\ \E recipe \in Recipes, accepted \in BOOLEAN :
          LET r == AddToFavorites(store, recipe, accepted) IN
          /\ store' = r.st
          /\ ui' = IF Truthy(r.ret)
                   THEN [ui EXCEPT !.hooks[h] = FetchFavorites(@, r.st)]
                   ELSE ui
    /\ UNCHANGED <<available, now, ctx>>

\* useFavorites().removeFavorite(recipeId) of one instance
RemoveFavorite(h) ==
    /\ ui.hooks[h].mounted
    /\ \E recipeId \in RecipeIds, accepted \in BOOLEAN :
          LET r == RemoveFromFavorites(store, recipeId, accepted) IN
          /\ store' = r.st
          /\ ui' = IF Truthy(r.ret)
                   THEN [ui EXCEPT !.hooks[h] = FetchFavorites(@, r.st)]
                   ELSE ui
    /\ UNCHANGED <<available, now, ctx>>

\* useIsFavorited(recipeId).toggleFavorite(recipe) of one instance:
\* useToggleFavorite's toggle, then refetch unless it returned null
HookToggleFavorite(h) ==
    /\ ui.hooks[h].mounted
    /\ StoredItems(store) < MaxFavs
    /\ \E recipe \in Recipes, accepted \in BOOLEAN :
          LET r == ToggleFavorite(store, recipe, accepted) IN
          /\ store' = r.st
          /\ ui' = IF r.ret # JNull
                   THEN [ui EXCEPT !.hooks[h] = FetchFavorites(@, r.st)]
                   ELSE ui
    /\ UNCHANGED <<available, now, ctx>>

\* handleRemoveFavorite of the profile page: removeFromFavorites is called
\* directly.
HandleRemoveFavorite ==
    /\ \E recipeId \in RecipeIds :
          store' = RemoveFromFavorites(store, recipeId, TRUE).st
    /\ UNCHANGED <<available, now, ctx, ui>>

InitHooks ==
    /\ store = EmptyStore
    /\ available = TRUE
    /\ now = Epoch
    /\ ctx = [c \in Contexts |-> Idle]
    /\ ui = [mounted |-> TRUE, hooks |-> [h \in Instances |-> Unmounted]]

NextHooks ==
    \/ \E h \in Instances : MountHook(h)
    \/ \E h \in Instances : MountEffect(h)
    \/ \E h \in Instances : AddFavorite(h)
    \/ \E h \in Instances : RemoveFavorite(h)
    \/ \E h \in Instances : HookToggleFavorite(h)
    \/ HandleRemoveFavorite

SpecHooks == InitHooks /\ [][NextHooks]_vars

(***************************************************************************)
(* clearAllDrafts (useLocalStorage.js) over a store that holds drafts, the *)
(* profile, favorites and reviews.                                         *)
(***************************************************************************)
MaxDrafts == 2

ClearedDraftIds == DraftIds \cup SuffixDraftIds
ClearedDraftValues == {Obj([username |-> Str("Ani")]), Arr(<<Str("a")>>)}

\* The drafts the store holds, read without the application's code
StoredDrafts(st) ==
    {d \in ClearedDraftIds : ~IsSingleton(d) /\ st[DraftKey(d)] # JNull}

\* saveDraft is called.
ClearSaveDraft ==
    \E draftData \in ClearedDraftValues, draftId \in ClearedDraftIds, rejectAt \in 0..2 :
        /\ rejectAt = 2 => ~IsSingleton(draftId)
        /\ \/ draftId \in StoredDrafts(store)
           \/ Cardinality(StoredDrafts(store)) < MaxDrafts
        /\ store' = SaveDraft(store, draftData, draftId, rejectAt).st
        /\ UNCHANGED <<available, now, ctx, ui>>

\* clearAllDrafts is called.
CallClearAllDrafts ==
    /\ store' = ClearAllDrafts(store).st
    /\ UNCHANGED <<available, now, ctx, ui>>

InitClear ==
    /\ available = TRUE
    /\ store = EmptyStore
    /\ now = Epoch
    /\ ctx = [c \in Contexts |-> Idle]
    /\ ui = NoUi

NextClear ==
    \/ ClearSaveDraft
    \/ CallClearAllDrafts
    \/ CallSaveReview(MaxReviews)

SpecClear == InitClear /\ [][NextClear]_vars

(***************************************************************************)
(* Submitting the edit page (EditRecipePage.jsx with useUpdateRecipe and   *)
(* useRecipe): the remote calls of the updates as they proceed.            *)
(* ui.updates holds a record per call of updateRecipe: where it is (the    *)
(* GET of the current recipe, the PUT, the refetch of handleSubmit, done). *)
(***************************************************************************)
MaxUpdates == 3

\* The ways a submit event can come about: the Simpan button, and the
\* implicit submission of the form by the Enter key
SubmitPaths == {"button", "form"}

\* The type of every button inside the <form> element
FormButtonTypes == {"button"}

\* The inputs of the form that take part in implicit submission
FormTextInputs ==
    {"name", "prep_time", "cook_time", "servings", "ingredientName",
     "ingredientQuantity"}

\* A faulty variant of SubmitEventPossible: the button is never disabled.
Mutant_SubmitEventPossible(path, s) == ~s.recipeLoading

\* Whether the page as rendered lets a submit event happen: the page shows
\* the form only when the recipe is not loading, the Simpan button is
\* disabled while updateLoading, and a form without submit button is
\* submitted by Enter only when it has a single text input.
SubmitEventPossible(path, s) ==
    /\ ~s.recipeLoading
    /\ IF path = "button" THEN ~s.updateLoading
       ELSE "submit" \in FormButtonTypes \/ Cardinality(FormTextInputs) <= 1

\* The remote calls of the updates that are in flight
InFlight(s) == {i \in DOMAIN s.updates : s.updates[i].pc \in {"get", "put"}}

\* The user changes the form so that it passes, or fails, the checks of
\* handleSubmit.
FormEdited ==
    /\ ~ui.recipeLoading
    /\ ui' = [ui EXCEPT !.valid = ~@]
    /\ UNCHANGED <<store, available, now, ctx>>

\* handleSubmit up to the first await: the checks, then updateRecipe sets
\* loading and sends the GET of the current recipe.
SubmitEvent ==
    /\ \E path \in SubmitPaths : SubmitEventPossible(path, ui)
    /\ Len(ui.updates) < MaxUpdates
    /\ ui' = IF ~ui.valid THEN [ui EXCEPT !.alerts = "invalid"]
             ELSE [ui EXCEPT !.updateLoading = TRUE, !.updateError = JNull,
                             !.alerts = "none",
                             !.updates = Append(@, [pc |-> "get", result |-> Undef])]
    /\ UNCHANGED <<store, available, now, ctx>>

\* The GET of updateRecipe ends: without success the update ends with null,
\* otherwise the PUT is sent.
CurrentRecipeFetched(i) ==
    /\ ui.updates[i].pc = "get"
    /\ \E random \in RandomDraws, outcome \in FetchOutcomes :
          LET response == GetRecipeById(outcome, random) IN
          ui' = IF response.threw
                THEN [ui EXCEPT !.updates[i] = [pc |-> "done", result |-> JNull],
                                !.updateLoading = FALSE,
                                !.updateError =
                                    Or(Get(response.ret, "message"),
                                       Str("An error occurred while updating recipe"))]
                ELSE IF ~Truthy(Get(response.ret, "success"))
                THEN [ui EXCEPT !.updates[i] = [pc |-> "done", result |-> JNull],
                                !.updateLoading = FALSE,
                                !.updateError = Str("Failed to fetch current recipe data")]
                ELSE [ui EXCEPT !.updates[i].pc = "put"]
    /\ UNCHANGED <<store, available, now, ctx>>

\* The PUT of updateRecipe ends: updateRecipe returns, and with a result
\* handleSubmit calls refetch.
RecipePut(i) ==
    /\ ui.updates[i].pc = "put"
    /\ \E outcome \in FetchOutcomes :
          LET response == ApiClient(outcome) IN
          ui' = IF response.settled = "rejected"
                THEN [ui EXCEPT !.updates[i] = [pc |-> "done", result |-> JNull],
                                !.updateLoading = FALSE,
                                !.updateError =
                                    Or(Get(response.value, "message"),
                                       Str("An error occurred while updating recipe"))]
                ELSE IF ~Truthy(Get(response.value, "success"))
                THEN [ui EXCEPT !.updates[i] = [pc |-> "done", result |-> JNull],
                                !.updateLoading = FALSE,
                                !.updateError =
                                    Or(Get(response.value, "message"),
                                       Str("Failed to update recipe"))]
                ELSE IF Truthy(Get(response.value, "data"))
                THEN [ui EXCEPT !.updates[i] =
                                    [pc |-> "refetch",
                                     result |-> Get(response.value, "data")],
                                !.updateLoading = FALSE,
                                !.recipeLoading = TRUE]
                ELSE [ui EXCEPT !.updates[i] =
                                    [pc |-> "done",
                                     result |-> Get(response.value, "data")],
                                !.updateLoading = FALSE]
    /\ UNCHANGED <<store, available, now, ctx>>

\* The refetch of handleSubmit ends and onSave?.(result) is called.
Refetched(i) ==
    /\ ui.updates[i].pc = "refetch"
    /\ ui' = [ui EXCEPT !.updates[i].pc = "done", !.recipeLoading = FALSE]
    /\ UNCHANGED <<store, available, now, ctx>>

InitSubmit ==
    /\ store = EmptyStore
    /\ available = TRUE
    /\ now = Epoch
    /\ ctx = [c \in Contexts |-> Idle]
    /\ ui = [mounted |-> TRUE, valid |-> TRUE, recipeLoading |-> FALSE,
             updateLoading |-> FALSE, updateError |-> JNull, alerts |-> "none",
             updates |-> <<>>]

NextSubmit ==
    \/ FormEdited
    \/ SubmitEvent
    \/ \E i \in DOMAIN ui.updates : CurrentRecipeFetched(i)
    \/ \E i \in DOMAIN ui.updates : RecipePut(i)
    \/ \E i \in DOMAIN ui.updates : Refetched(i)

SpecSubmit == InitSubmit /\ [][NextSubmit]_vars

(***************************************************************************)
(* toggleFavorite in two browsing contexts that share the store.  Each     *)
(* localStorage access is one step; between the accesses of one context    *)
(* the other context may run.                                              *)
(***************************************************************************)
Other(c) == CHOOSE d \in Contexts : d # c

Running(c) == ctx[c].pc \in {"check", "load", "write"}

\* toggleFavorite(recipe) is called in context c.
BeginToggle(c) ==
    \E recipe \in Recipes :
        LET d == Other(c)
            joins == Running(d) /\ ctx[d].recipe = recipe IN
        /\ ctx[c].pc \in {"idle", "done"}
        /\ ~(ctx[c].paired /\ Running(d))
        /\ StoredItems(store) < MaxFavs
        /\ ctx' = [ctx EXCEPT
                     ![c] = [Idle EXCEPT
                               !.pc = "check",
                               !.recipe = recipe,
                               !.orig = IF joins THEN ctx[d].orig
                                        ELSE Get(recipe, "id") \in StoredIds(store),
                               !.paired = joins],
                     ![d].paired = IF joins THEN TRUE ELSE @]
        /\ UNCHANGED <<store, available, now, ui>>

\* const isFavorited = isRecipeFavorited(recipe.id)
ToggleCheck(c) ==
    /\ ctx[c].pc = "check"
    /\ IF ctx[c].recipe.t \in {"null", "undef"}
       THEN ctx' = [ctx EXCEPT ![c].pc = "done", ![c].ret = JNull]
       ELSE ctx' = [ctx EXCEPT
                      ![c].pc = "load",
                      ![c].isFavorited =
                          IsRecipeFavorited(store, Get(ctx[c].recipe, "id")).ret.b]
    /\ UNCHANGED <<store, available, now, ui>>

\* loadFavorites() inside removeFromFavorites / addToFavorites, up to the
\* setItem
ToggleLoad(c) ==
    LET recipe == ctx[c].recipe
        favorites == LoadFavorites(store).ret IN
    /\ ctx[c].pc = "load"
    /\ IF ctx[c].isFavorited
       THEN ctx' = [ctx EXCEPT
                      ![c].pc = "write",
                      ![c].pending = Arr(WithoutId(favorites.a, Get(recipe, "id")))]
       ELSE IF ExistingIndexFound(favorites.a, recipe)
       THEN ctx' = [ctx EXCEPT ![c].pc = "done", ![c].ret = Bool(TRUE)]
       ELSE ctx' = [ctx EXCEPT
                      ![c].pc = "write",
                      ![c].pending = Arr(Append(favorites.a, FavoriteRecipe(recipe)))]
    /\ UNCHANGED <<store, available, now, ui>>

\* localStorage.setItem(FAVORITES_KEY, JSON.stringify(...)); return
ToggleWrite(c) ==
    \E accepted \in BOOLEAN :
        LET w == SetItem(store, FAVORITES_KEY, JSONstringify(ctx[c].pending),
                         accepted) IN
        /\ ctx[c].pc = "write"
        /\ store' = w.st
        /\ ctx' = [ctx EXCEPT ![c].pc = "done",
                              ![c].ret = Bool(~ctx[c].isFavorited),
                              ![c].clean = ~w.threw]
        /\ UNCHANGED <<available, now, ui>>

InitRace ==
    /\ store = EmptyStore
    /\ available = TRUE
    /\ now = Epoch
    /\ ctx = [c \in Contexts |-> Idle]
    /\ ui = NoUi

NextRace ==
    \/ \E c \in Contexts : BeginToggle(c)
    \/ \E c \in Contexts : ToggleCheck(c)
    \/ \E c \in Contexts : ToggleLoad(c)
    \/ \E c \in Contexts : ToggleWrite(c)

SpecRace == InitRace /\ [][NextRace]_vars

\* C2: two overlapping toggleFavorite calls for the same recipe, both
\* completed, leave the membership the recipe had before them (what two
\* sequential toggles produce), with no duplicate entry.
C2_OverlappingTogglesAsSequential ==
    \A c \in Contexts :
        LET d == Other(c) IN
        ( /\ ctx[c].pc = "done" /\ ctx[d].pc = "done"
          /\ ctx[c].paired /\ ctx[d].paired
          /\ ctx[c].clean /\ ctx[d].clean
          /\ ctx[c].recipe = ctx[d].recipe
          /\ Get(ctx[c].recipe, "id") # Undef )
        => /\ (Get(ctx[c].recipe, "id") \in StoredIds(store)) = ctx[c].orig
           /\ Cardinality({i \in DOMAIN StoredFavorites(store) :
                             Get(StoredFavorites(store)[i], "id")
                                 = Get(ctx[c].recipe, "id")}) <= 1

\* C1: the stored favorites hold at most one entry per recipe identifier.
C1_OneEntryPerIdentifier ==
    \A i, j \in DOMAIN StoredFavorites(store) :
        i # j => Get(StoredFavorites(store)[i], "id")
                    # Get(StoredFavorites(store)[j], "id")

(***************************************************************************)
(* Properties of the review service (SpecReviews).  A property about a     *)
(* call is stated over every reachable store: whatever call is made next,  *)
(* with whatever inputs, its outcome is as described.                      *)
(***************************************************************************)
FailedOutcomes == {outcome \in RemoteOutcomes : RemoteFailed(outcome)}

\* The reviews record can be extended: storage works and the record is
\* absent or an array.
ReviewsWritable(st) ==
    /\ available
    /\ \/ st[REVIEWS_KEY] = JNull
       \/ st[REVIEWS_KEY].t = "text" /\ st[REVIEWS_KEY].json.t = "arr"

\* after is before with one more review at its end, for recipeId, with the
\* rating of reviewData and its comment ("" when it has none).
HoldsNewReview(before, after, recipeId, reviewData) ==
    /\ Len(after) = Len(before) + 1
    /\ SubSeq(after, 1, Len(before)) = before
    /\ Get(after[Len(after)], "recipe_id") = recipeId
    /\ Get(after[Len(after)], "rating") = Get(reviewData, "rating")
    /\ Get(after[Len(after)], "comment") = Or(Get(reviewData, "comment"), Str(""))

\* The outcomes after which createReview keeps a local copy: the request
\* failed, or the server answered 2xx with an empty (null) body or with a
\* body in which success or data is set.
LocalCopyDue(outcome) ==
    \/ RemoteFailed(outcome)
    \/ outcome.data = JNull
    \/ Truthy(Get(outcome.data, "success"))
    \/ Truthy(Get(outcome.data, "data"))

ListedAfter(st, recipeId, later) == Get(GetReviews(st, recipeId, later).ret, "data")

\* C4 (as stated): when the remote creation fails, createReview does not
\* raise, returns an envelope tagged offline, and a following getReviews
\* served by the local fallback contains the review.
C4_OfflineCreateAlwaysListed ==
    \A recipeId \in RecipeIds, reviewData \in ReviewDatas \ {JNull},
       outcome \in FailedOutcomes, accepted \in BOOLEAN, later \in FailedOutcomes :
        LET r == CreateReview(store, recipeId, reviewData, outcome, accepted)
            listed == ListedAfter(r.st, recipeId, later) IN
        /\ ~r.threw
        /\ Get(r.ret, "offline") = Bool(TRUE)
        /\ listed.t = "arr"
        /\ \E i \in DOMAIN listed.a :
               /\ Get(listed.a[i], "rating") = Get(reviewData, "rating")
               /\ Get(listed.a[i], "comment") = Or(Get(reviewData, "comment"), Str(""))
               /\ Get(listed.a[i], "created_at") = ISOString

\* C4 (amended): when the remote creation fails, createReview does not
\* raise and returns {success: true, data: reviewData, offline: true}; a
\* following getReviews served by the local fallback lists the review, after
\* the reviews it listed before, provided the local record was writable and
\* the write was accepted; otherwise it lists what it listed before.
C4_OfflineCreateListedIfWritten ==
    \A recipeId \in RecipeIds, reviewData \in ReviewDatas,
       outcome \in FailedOutcomes, accepted \in BOOLEAN, later \in FailedOutcomes :
        LET r == CreateReview(store, recipeId, reviewData, outcome, accepted)
            before == ListedAfter(store, recipeId, later)
            listed == ListedAfter(r.st, recipeId, later) IN
        /\ ~r.threw
        /\ r.ret = Obj([success |-> Bool(TRUE), data |-> reviewData,
                        offline |-> Bool(TRUE)])
        /\ before.t = "arr" /\ listed.t = "arr"
        /\ IF ReviewsWritable(store) /\ accepted /\ reviewData # JNull
           THEN HoldsNewReview(before.a, listed.a, recipeId, reviewData)
           ELSE listed = before

\* The store holds a review of recipe 2 only; a creation for recipe 1 that
\* times out is answered offline and then listed alone for recipe 1.
C4_Witness ==
    /\ Len(StoredReviews(store)) = 1
    /\ Get(StoredReviews(store)[1], "recipe_id") = Num(2)
    /\ \E outcome \in FailedOutcomes, reviewData \in ReviewDatas :
           LET r == CreateReview(store, Num(1), reviewData, outcome, TRUE) IN
           /\ outcome.kind = "timeout"
           /\ Get(r.ret, "offline") = Bool(TRUE)
           /\ Len(StoredReviews(r.st)) = 2
           /\ Len(ListedAfter(r.st, Num(1), outcome).a) = 1

\* The stored reviews whose recipe_id is recipeId.
StoredReviewsOf(st, recipeId) ==
    LET Mine(review) == Get(review, "recipe_id") = recipeId
    IN SelectSeq(StoredReviews(st), Mine)

\* C5: getReviews never raises; it returns the body of the remote response
\* when the request succeeds, and after any failed request the envelope
\* {success: true, data: the stored reviews whose recipe_id is recipeId}.
C5_GetReviewsRemoteOrLocal ==
    \A recipeId \in RecipeIds, outcome \in RemoteOutcomes :
        LET r == GetReviews(store, recipeId, outcome) IN
        /\ ~r.threw
        /\ r.st = store
        /\ ~RemoteFailed(outcome) => r.ret = outcome.data
        /\ RemoteFailed(outcome) =>
               r.ret = Obj([success |-> Bool(TRUE),
                            data |-> Arr(StoredReviewsOf(store, recipeId))])

\* The store holds a review of each recipe: the fallback of a request that
\* failed lists one of the two.
C5_Witness ==
    /\ Len(StoredReviews(store)) = 2
    /\ Len(StoredReviewsOf(store, Num(1))) = 1
    /\ Len(StoredReviewsOf(store, Num(2))) = 1
    /\ \E outcome \in FailedOutcomes :
           /\ outcome.kind = "response"
           /\ Len(ListedAfter(store, Num(2), outcome).a) = 1

(***************************************************************************)
(* Properties of the store functions (Spec, SpecDrafts).                   *)
(***************************************************************************)
\* The text under a key is no JSON.
IsMalformed(st, key) == st[key].t = "str"

Booleans == {Bool(TRUE), Bool(FALSE)}

\* C6: none of the twelve store functions raises, whether storage is
\* unavailable, rejects the write, or holds malformed content; when storage
\* is unavailable or the write is rejected, and when the content the
\* function has to decode is malformed, the function returns its default:
\* false (saveDraft, deleteDraft, hasDraft, saveFavorites, addToFavorites,
\* removeFromFavorites, isRecipeFavorited), null (loadDraft,
\* getDraftTimestamp, saveReview) or the empty list (loadFavorites,
\* loadUserReviews).
C6_StoreFunctionsNeverRaise ==
    /\ \A draftData \in DraftValues, draftId \in DraftIds, rejectAt \in 0..2 :
           LET r == SaveDraft(store, draftData, draftId, rejectAt) IN
           /\ ~r.threw /\ r.ret \in Booleans
           /\ (~available \/ rejectAt = 1 \/ (rejectAt = 2 /\ ~IsSingleton(draftId)))
                  => r.ret = Bool(FALSE)
    /\ \A draftId \in DraftIds :
           /\ LET r == LoadDraft(store, draftId) IN
              /\ ~r.threw
              /\ (~available \/ IsMalformed(store, DraftKey(draftId)))
                     => r.ret = JNull
           /\ LET r == DeleteDraft(store, draftId) IN
              ~r.threw /\ r.ret \in Booleans /\ (~available => r.ret = Bool(FALSE))
           /\ LET r == HasDraft(store, draftId) IN
              ~r.threw /\ r.ret \in Booleans /\ (~available => r.ret = Bool(FALSE))
           /\ LET r == GetDraftTimestamp(store, draftId) IN
              ~r.threw /\ (~available => r.ret = JNull)
    /\ \A favoritesData \in FavoritesDatas, accepted \in BOOLEAN :
           LET r == SaveFavorites(store, favoritesData, accepted) IN
           /\ ~r.threw /\ r.ret \in Booleans
           /\ (~available \/ ~accepted) => r.ret = Bool(FALSE)
    /\ LET r == LoadFavorites(store) IN
       /\ ~r.threw
       /\ (~available \/ IsMalformed(store, FAVORITES_KEY)) => r.ret = EmptyArr
    /\ \A recipe \in Recipes, accepted \in BOOLEAN :
           LET r == AddToFavorites(store, recipe, accepted) IN
           /\ ~r.threw /\ r.ret \in Booleans
           /\ (~available \/ ~accepted) => r.ret = Bool(FALSE)
    /\ \A recipeId \in RecipeIds \cup StoredIds(store), accepted \in BOOLEAN :
           /\ LET r == RemoveFromFavorites(store, recipeId, accepted) IN
              /\ ~r.threw /\ r.ret \in Booleans
              /\ (~available \/ ~accepted) => r.ret = Bool(FALSE)
           /\ LET r == IsRecipeFavorited(store, recipeId) IN
              /\ ~r.threw /\ r.ret \in Booleans
              /\ (~available \/ IsMalformed(store, FAVORITES_KEY))
                     => r.ret = Bool(FALSE)
    /\ \A reviewData \in FullReviewDatas, accepted \in BOOLEAN :
           LET r == SaveReview(store, reviewData, accepted) IN
           /\ ~r.threw
           /\ (~available \/ ~accepted \/ IsMalformed(store, REVIEWS_KEY))
                  => r.ret = JNull
    /\ \A userIdentifier \in UserIdentifiers :
           LET r == LoadUserReviews(store, userIdentifier) IN
           /\ ~r.threw
           /\ (~available \/ IsMalformed(store, REVIEWS_KEY)) => r.ret = EmptyArr

\* The reviews record is malformed while a draft has been saved: decoding
\* the record throws inside loadUserReviews and saveReview, which answer
\* with their defaults, and a rejected saveDraft answers false.
C6_Witness ==
    /\ available
    /\ IsMalformed(store, REVIEWS_KEY)
    /\ store[DraftKey("create")].t = "text"
    /\ LoadUserReviewsBody(store, Str("u1")).threw
    /\ LoadUserReviews(store, Str("u1")).ret = EmptyArr
    /\ \E reviewData \in FullReviewDatas :
           /\ SaveReviewBody(store, reviewData, TRUE).threw
           /\ SaveReview(store, reviewData, TRUE).ret = JNull
    /\ \E draftData \in DraftValues :
           /\ SaveDraftBody(store, draftData, "1", 1).threw
           /\ SaveDraft(store, draftData, "1", 1).ret = Bool(FALSE)

\* What loadDraft returns after saveDraft(draftData, draftId), the write
\* accepted.
LoadedBack(draftData, draftId) ==
    LoadDraft(SaveDraft(store, draftData, draftId, 0).st, draftId).ret

\* C7 (as stated): for every draft key and every value v, saveDraft(v, key)
\* followed by loadDraft(key) returns a value deep-equal to v.
C7_DraftRoundTripDeepEqual ==
    \A draftData \in DraftValues, draftId \in DraftIds :
        available => LoadedBack(draftData, draftId) = draftData

\* C7 (amended): for every draft key, saveDraft(v, key) with the write
\* accepted, followed by loadDraft(key), returns an object whose savedAt is
\* the time of the save and whose other properties are the own properties
\* of v: for an object v, v with savedAt set (or replaced); for a v that is
\* no object, never v itself (an array comes back as an object keyed by its
\* indices, null as an object with savedAt only).
C7_DraftRoundTripWithSavedAt ==
    \A draftData \in DraftValues, draftId \in DraftIds :
        available =>
            LET loaded == LoadedBack(draftData, draftId) IN
            /\ loaded.t = "obj"
            /\ Get(loaded, "savedAt") = ISOString
            /\ draftData.t = "obj" =>
                   /\ DOMAIN loaded.o = DOMAIN draftData.o \cup {"savedAt"}
                   /\ \A f \in DOMAIN draftData.o \ {"savedAt"} :
                          loaded.o[f] = draftData.o[f]
            /\ draftData.t = "arr" =>
                   /\ Cardinality(DOMAIN loaded.o) = Len(draftData.a) + 1
                   /\ \A i \in DOMAIN draftData.a :
                          Get(loaded, ToString(i - 1)) = draftData.a[i]
            /\ draftData.t = "str" =>
                   Cardinality(DOMAIN loaded.o) = Len(draftData.s) + 1
            /\ draftData = JNull => DOMAIN loaded.o = {"savedAt"}

\* The profile was saved after the clock had advanced: loadDraft returns it
\* with the time of the save, which is not the value that was saved.
C7_Witness ==
    /\ now > Epoch
    /\ LoadDraft(store, "user_profile").ret
           = Obj([username |-> Str("Ani"), savedAt |-> ISOString])
    /\ LoadedBack(Arr(<<Str("a")>>), "create")
           = Obj([savedAt |-> ISOString] @@ ("0" :> Str("a")))

\* C18: every saveDraft(data, draftId) that returns true with a draftId other
\* than user_profile and user_favorites leaves a timestamp record equal to
\* the savedAt of the stored draft, and getDraftTimestamp(draftId) returns
\* it; a save under user_profile or user_favorites changes no key but the
\* one of the draft, so it writes no timestamp record.
C18_TimestampIsSavedAt ==
    \A draftData \in DraftValues, draftId \in DraftIds, rejectAt \in 0..2 :
        LET r == SaveDraft(store, draftData, draftId, rejectAt)
            key == DraftKey(draftId) IN
        r.ret = Bool(TRUE) =>
            IF ~IsSingleton(draftId)
            THEN /\ r.st[key].t = "text"
                 /\ r.st[TimestampKey(key)] = Get(r.st[key].json, "savedAt")
                 /\ GetDraftTimestamp(r.st, draftId).ret
                        = Get(LoadDraft(r.st, draftId).ret, "savedAt")
                 /\ GetDraftTimestamp(r.st, draftId).ret = ISOString
            ELSE \A k \in Keys \ {key} : r.st[k] = store[k]

\* The draft "create" is stored with its timestamp record, written after
\* the clock moved; saving the profile now succeeds and writes no timestamp.
C18_Witness ==
    /\ now > Epoch
    /\ store[DraftKey("create")].t = "text"
    /\ store[TimestampKey(DraftKey("create"))] = ISOString
    /\ GetDraftTimestamp(store, "create").ret
           = Get(LoadDraft(store, "create").ret, "savedAt")
    /\ LET r == SaveDraft(store, Obj([username |-> Str("Ani")]), "user_profile", 0) IN
       /\ r.ret = Bool(TRUE)
       /\ r.st[TimestampKey(USER_PROFILE_KEY)] = JNull

(***************************************************************************)
(* Properties of the favorites functions (SpecFav).                        *)
(***************************************************************************)
\* C8: whenever toggleFavorite(recipe) returns a value other than null, the
\* recipe is stored exactly if the value is true; and it returns null
\* exactly when an error (no recipe, storage unavailable, write rejected)
\* prevented the change.
C8_ToggleResultIsMembership ==
    \A recipe \in Recipes, accepted \in BOOLEAN :
        LET r == ToggleFavorite(store, recipe, accepted) IN
        /\ r.ret # JNull =>
               (Get(recipe, "id") \in StoredIds(r.st)) = r.ret.b
        /\ r.ret = JNull <=> (recipe = JNull \/ ~available \/ ~accepted)

\* The identifier of the entry addToFavorites stores for a recipe.
EntryId(recipe) ==
    IF Get(recipe, "id") = Undef THEN Num(now) ELSE Get(recipe, "id")

\* after is before with one more entry at its end, whose identifier is id.
AppendedOne(before, after, id) ==
    /\ Len(after) = Len(before) + 1
    /\ SubSeq(after, 1, Len(before)) = before
    /\ Get(after[Len(after)], "id") = id

\* C9 (as stated): addToFavorites(recipe) returns false and leaves the
\* stored favorites unchanged when an entry with recipe.id is stored;
\* otherwise it appends exactly one entry for recipe.id, leaves every other
\* entry unchanged, and returns true.
C9_AddAppendsUnlessStored ==
    \A recipe \in Recipes \ {JNull}, accepted \in BOOLEAN :
        LET r == AddToFavorites(store, recipe, accepted) IN
        IF Get(recipe, "id") \in StoredIds(store)
        THEN r.ret = Bool(FALSE) /\ StoredFavorites(r.st) = StoredFavorites(store)
        ELSE /\ r.ret = Bool(TRUE)
             /\ AppendedOne(StoredFavorites(store), StoredFavorites(r.st),
                            Get(recipe, "id"))

\* C9 (amended): addToFavorites(recipe) returns false and leaves the store
\* unchanged when an entry with recipe.id is stored, when there is no
\* recipe, and when storage is unavailable or rejects the write; otherwise
\* it appends exactly one entry, whose identifier is recipe.id or, for a
\* recipe without identifier, the current time, leaves every other entry
\* unchanged, and returns true.
C9_AddAppendsUnlessStoredOrRefused ==
    \A recipe \in Recipes, accepted \in BOOLEAN :
        LET r == AddToFavorites(store, recipe, accepted) IN
        IF \/ Get(recipe, "id") \in StoredIds(store)
           \/ recipe = JNull \/ ~available \/ ~accepted
        THEN r.ret = Bool(FALSE) /\ r.st = store
        ELSE /\ r.ret = Bool(TRUE)
             /\ AppendedOne(StoredFavorites(store), StoredFavorites(r.st),
                            EntryId(recipe))

\* Recipe 1 is stored and recipe 2 is not: adding recipe 1 is refused,
\* adding recipe 2 appends it after recipe 1.
C9_Witness ==
    /\ available
    /\ StoredIds(store) = {Num(1)}
    /\ \E recipe \in Recipes :
           /\ Get(recipe, "id") = Num(1)
           /\ AddToFavorites(store, recipe, TRUE).ret = Bool(FALSE)
    /\ \E recipe \in Recipes :
           /\ Get(recipe, "id") = Num(2)
           /\ AddToFavorites(store, recipe, TRUE).ret = Bool(TRUE)
           /\ StoredIds(AddToFavorites(store, recipe, TRUE).st) = {Num(1), Num(2)}

\* C10 (as stated): removeFromFavorites(id) returns true whether or not id
\* is stored; when id is not stored the stored favorites are the same
\* before and after; calling it twice has the effect of calling it once.
C10_RemoveAlwaysTrue ==
    \A recipeId \in RecipeIds \cup StoredIds(store), accepted \in BOOLEAN :
        LET r == RemoveFromFavorites(store, recipeId, accepted) IN
        /\ r.ret = Bool(TRUE)
        /\ recipeId \notin StoredIds(store) =>
               StoredFavorites(r.st) = StoredFavorites(store)
        /\ RemoveFromFavorites(r.st, recipeId, accepted).st = r.st

\* C10 (amended): removeFromFavorites(id) returns true, whether or not id
\* is stored, when the store accepts the write, and then no entry with id
\* is stored and the other entries are kept in their order; it returns
\* false and leaves the store unchanged when storage is unavailable or
\* rejects the write.  When id is not stored the stored favorites are the
\* same before and after; after a call that was written, a second call
\* leaves the store as the first left it.
C10_RemoveTrueIfWritten ==
    \A recipeId \in RecipeIds \cup StoredIds(store), accepted \in BOOLEAN :
        LET r == RemoveFromFavorites(store, recipeId, accepted)
            Others(fav) == Get(fav, "id") # recipeId IN
        /\ IF available /\ accepted
           THEN /\ r.ret = Bool(TRUE)
                /\ StoredFavorites(r.st) = SelectSeq(StoredFavorites(store), Others)
           ELSE r.ret = Bool(FALSE) /\ r.st = store
        /\ recipeId \notin StoredIds(store) =>
               StoredFavorites(r.st) = StoredFavorites(store)
        /\ \A again \in BOOLEAN :
               LET r2 == RemoveFromFavorites(r.st, recipeId, again) IN
               accepted => r2.st = r.st

\* Recipe 2 is stored alone after a removal emptied the list and recipe 2
\* was added: removing recipe 1 (absent) returns true and keeps recipe 2,
\* removing recipe 2 empties the list.
C10_Witness ==
    /\ available
    /\ StoredIds(store) = {Num(2)}
    /\ RemoveFromFavorites(store, Num(1), TRUE).ret = Bool(TRUE)
    /\ StoredIds(RemoveFromFavorites(store, Num(1), TRUE).st) = {Num(2)}
    /\ StoredIds(RemoveFromFavorites(store, Num(2), TRUE).st) = {}
    /\ RemoveFromFavorites(store, Num(2), FALSE).ret = Bool(FALSE)

\* The recipes that carry an identifier and a name and nothing else
BareRecipes ==
    {recipe \in Recipes : recipe.t = "obj" /\ DOMAIN recipe.o = {"id", "name"}}

\* C20: while storage works and no favorite is stored, loadFavorites returns
\* the empty list; after addToFavorites of a recipe that carries only an
\* identifier and a name it returns exactly one entry, with that identifier
\* and name, category "makanan", difficulty "mudah" and servings 4; after
\* removeFromFavorites of that identifier it returns the empty list again.
C20_AddThenRemoveFromEmpty ==
    available /\ store[FAVORITES_KEY] \in {JNull, JsonText(EmptyArr)} =>
        /\ LoadFavorites(store).ret = EmptyArr
        /\ \A recipe \in BareRecipes :
               LET added == AddToFavorites(store, recipe, TRUE)
                   listed == LoadFavorites(added.st).ret
                   removed == RemoveFromFavorites(added.st, Get(recipe, "id"), TRUE) IN
               /\ added.ret = Bool(TRUE)
               /\ IsArray(listed) /\ Len(listed.a) = 1
               /\ Get(listed.a[1], "id") = Get(recipe, "id")
               /\ Get(listed.a[1], "name") = Get(recipe, "name")
               /\ Get(listed.a[1], "category") = Str("makanan")
               /\ Get(listed.a[1], "difficulty") = Str("mudah")
               /\ Get(listed.a[1], "servings") = Num(4)
               /\ removed.ret = Bool(TRUE)
               /\ LoadFavorites(removed.st).ret = EmptyArr

\* The store holds the empty list that a removal left behind: adding the
\* recipe {id: 1, name: "Soto"} gives one entry with servings 4, and
\* removing it gives the empty list again.
C20_Witness ==
    /\ available
    /\ store[FAVORITES_KEY] = JsonText(EmptyArr)
    /\ \E recipe \in BareRecipes :
          LET added == AddToFavorites(store, recipe, TRUE) IN
          /\ Len(StoredFavorites(added.st)) = 1
          /\ Get(StoredFavorites(added.st)[1], "servings") = Num(4)
          /\ LoadFavorites(
                 RemoveFromFavorites(added.st, Get(recipe, "id"), TRUE).st).ret
               = EmptyArr

\* The error an apiClient call is rejected with: the payload of the
\* server's error response when it has one, the transport error otherwise.
RejectionOf(outcome) ==
    IF outcome.kind = "response" /\ Truthy(outcome.data) THEN outcome.data
    ELSE AxiosError(outcome)

\* C11: updateReview and deleteReview leave the local review collection as
\* it is and answer the same whatever it holds (also when storage is
\* unavailable); they return the body of the remote response when the
\* request succeeds, and when it fails they raise its error to the caller,
\* returning no envelope.
C11_UpdateDeleteRemoteOnly ==
    \A reviewId \in ReviewIds(store), outcome \in RemoteOutcomes :
        /\ \A reviewData \in ReviewDatas :
               LET r == UpdateReview(store, reviewId, reviewData, outcome) IN
               /\ r.st = store
               /\ r = [UpdateReview(EmptyStore, reviewId, reviewData, outcome)
                          EXCEPT !.st = store]
               /\ r.threw = RemoteFailed(outcome)
               /\ r.ret = IF RemoteFailed(outcome) THEN RejectionOf(outcome)
                          ELSE outcome.data
        /\ LET r == DeleteReview(store, reviewId, outcome) IN
           /\ r.st = store
           /\ r = [DeleteReview(EmptyStore, reviewId, outcome) EXCEPT !.st = store]
           /\ r.threw = RemoteFailed(outcome)
           /\ r.ret = IF RemoteFailed(outcome) THEN RejectionOf(outcome)
                      ELSE outcome.data

\* A review created offline is stored under identifier "100": updating or
\* deleting that very review while the server answers with an error raises
\* the server's payload and leaves the stored review as it is.
C11_Witness ==
    /\ Len(StoredReviews(store)) = 1
    /\ Get(StoredReviews(store)[1], "id") = Str("100")
    /\ \E outcome \in FailedOutcomes, reviewData \in ReviewDatas :
           /\ outcome.kind = "response"
           /\ UpdateReview(store, Str("100"), reviewData, outcome).threw
           /\ UpdateReview(store, Str("100"), reviewData, outcome).ret = ErrorPayload
           /\ DeleteReview(store, Str("100"), outcome).threw
           /\ DeleteReview(store, Str("100"), outcome).st = store

(***************************************************************************)
(* Properties of the polling subscriptions (SpecPoll).                     *)
(***************************************************************************)
\* What the store holds under the key of subscription s: the value written
\* last, or the initial value of the subscription when the key is removed.
CurrentContent(s) ==
    IF store[SubscribedKey(s)].t = "text" THEN store[SubscribedKey(s)].json
    ELSE InitialValue(s)

\* C12: one poll interval (500 ms) after the last successful write to a
\* key, every subscriber of the key holds the value written, and one poll
\* interval after the key was removed it holds its initial value.  A
\* subscriber whose timer is due at this very moment is given the time to
\* run its callback.
C12_SubscriberFreshWithinInterval ==
    \A s \in Subscribers :
        (ui.age[s] >= POLL_INTERVAL /\ ui.timer[s] < POLL_INTERVAL)
            => ui.value[s] = CurrentContent(s)

IsIntegerAtLeast(v, min) == v.t = "num" /\ v.n \in Int /\ v.n >= min

\* C14: for every recipe object, normalizeRecipeData returns a recipe whose
\* ingredients and steps are sequences, whose prep_time and cook_time are
\* integers >= 0, whose servings is an integer >= 1 and whose name is a
\* non-empty string.
C14_NormalizedFieldsInRange ==
    ui.done =>
        /\ ~ui.normalized.threw
        /\ LET r == ui.normalized.ret IN
           /\ IsArray(Get(r, "ingredients"))
           /\ IsArray(Get(r, "steps"))
           /\ IsIntegerAtLeast(Get(r, "prep_time"), 0)
           /\ IsIntegerAtLeast(Get(r, "cook_time"), 0)
           /\ IsIntegerAtLeast(Get(r, "servings"), 1)
           /\ Get(r, "name").t = "str" /\ Get(r, "name").s # ""

\* C15: data that fails validation is never sent: when the submitted form
\* fails validateRecipeData the submission issues no request, and the body
\* of every update request passes validateRecipeData.
C15_InvalidRecipeNeverSent ==
    ui.submitted =>
        /\ ~ValidateRecipeData(ui.formData) => ui.requests = <<>>
        /\ \A i \in DOMAIN ui.requests :
               ui.requests[i].method = "PUT" =>
                   ValidateRecipeData(ui.requests[i].body)

(***************************************************************************)
(* Properties of the request wrapper (SpecRequest).                        *)
(***************************************************************************)
\* C16: every apiClient call that is no longer pending has either resolved
\* to the body of the server's response or been rejected, with the payload
\* of the server's error response when there is one and with the transport
\* error otherwise; a call is pending for at most 10 seconds, and the call
\* that reaches the timeout is rejected with a transport error.
C16_CallResolvesOrRejects ==
    \A c \in Calls :
        LET call == ui.calls[c] IN
        /\ call.pc \in {"idle", "pending", "resolved", "rejected"}
        /\ call.pc = "pending" => call.elapsed <= TIMEOUT
        /\ call.pc = "resolved" =>
              /\ ~RemoteFailed(call.outcome)
              /\ call.value = call.outcome.data
        /\ call.pc = "rejected" =>
              /\ RemoteFailed(call.outcome)
              /\ call.value = RejectionOf(call.outcome)
              /\ call.outcome.kind \in {"timeout", "network"} =>
                    call.value = AxiosError(call.outcome)

\* One call was rejected by the timeout and another with the payload of an
\* error response.
C16_Witness ==
    /\ ui.calls["call1"].pc = "rejected"
    /\ ui.calls["call1"].outcome.kind = "timeout"
    /\ ui.calls["call2"].pc = "rejected"
    /\ ui.calls["call2"].value = ErrorPayload

(***************************************************************************)
(* Properties of the readers of the review collection (SpecPoll).          *)
(***************************************************************************)
\* C17: while the content under recipe_reviews is malformed JSON, no reader
\* of the review collection raises: loadUserReviews and
\* getReviewsFromStorage return the empty list, a subscription that mounts
\* holds its initial value, and the removal of a review the profile page
\* lists completes.
C17_ReviewReadersAbsorbMalformed ==
    IsMalformed(store, REVIEWS_KEY) =>
        /\ \A userIdentifier \in UserIdentifiers :
               LoadUserReviews(store, userIdentifier) = Returned(EmptyArr, store)
        /\ \A recipeId \in RecipeIds :
               GetReviewsFromStorage(store, recipeId) = Returned(EmptyArr, store)
        /\ MountedPage(store).value["reviewsFromStorage"]
               = InitialValue("reviewsFromStorage")
        /\ \A username \in UserIdentifiers :
             \A i \in DOMAIN UserReviews(ui.value["reviewsFromStorage"], username) :
               ~HandleRemoveReview(
                    store,
                    Get(UserReviews(ui.value["reviewsFromStorage"], username)[i], "id"),
                    username, TRUE).threw

(***************************************************************************)
(* Properties of the favorites functions on legacy content (SpecLegacy).   *)
(***************************************************************************)
\* What the claim says loadFavorites returns for the JSON value content
ListedOf(content) ==
    IF content.t = "arr" THEN content
    ELSE IF content.t = "obj" /\ "items" \in DOMAIN content.o
    THEN content.o["items"]
    ELSE EmptyArr

\* C19: whatever JSON value is stored under user_favorites, loadFavorites
\* returns a sequence: the stored array, the items of a stored object that
\* has an items field, the empty sequence otherwise; and an addToFavorites
\* that then adds an entry leaves a bare array that begins with the entries
\* loadFavorites returned.
C19_LoadFavoritesYieldsSequence ==
    store[FAVORITES_KEY].t = "text" =>
        LET favorites == LoadFavorites(store).ret IN
        /\ IsArray(favorites)
        /\ favorites = ListedOf(store[FAVORITES_KEY].json)
        /\ \A recipe \in Recipes \ {JNull} :
               LET r == AddToFavorites(store, recipe, TRUE) IN
               ~HasId(favorites.a, Get(recipe, "id")) =>
                   /\ r.ret = Bool(TRUE)
                   /\ r.st[FAVORITES_KEY].t = "text"
                   /\ IsArray(r.st[FAVORITES_KEY].json)
                   /\ AppendedOne(favorites.a, r.st[FAVORITES_KEY].json.a,
                                  EntryId(recipe))

(***************************************************************************)
(* Properties of the recipe update (SpecEdit).                             *)
(***************************************************************************)
\* The first fetch of the submission returned the current recipe.
FirstFetchSucceeded ==
    /\ ui.first # Undef
    /\ ~RemoteFailed(ui.first)
    /\ Truthy(Get(ui.first.data, "success"))

\* The positions of the PUT requests of the last submission
Puts == {i \in DOMAIN ui.requests : ui.requests[i].method = "PUT"}

\* The fields of the fetched recipe that the form does not specify
Unspecified ==
    DOMAIN Get(ui.first.data, "data").o \ DOMAIN ui.formData.o

\* C21 (as stated): every PUT is preceded by a successful GET of the recipe,
\* and every field of the fetched record that the update data does not
\* specify is in the PUT body with the value fetched.
C21_PutKeepsUnspecifiedFields ==
    \A i \in Puts :
        /\ i > 1 /\ ui.requests[1].method = "GET" /\ FirstFetchSucceeded
        /\ \A f \in Unspecified :
               Get(ui.requests[i].body, f) = Get(ui.first.data, "data").o[f]

\* C21 (amended): every PUT is preceded by a successful GET of the recipe;
\* updated_at in the PUT body is the time of the update; every other field
\* of the fetched record that the update data does not specify is in the
\* body with the value fetched when that value is not null, and is left out
\* of the body when it is null.
C21_PutKeepsUnspecifiedNonNullFields ==
    \A i \in Puts :
        /\ i > 1 /\ ui.requests[1].method = "GET" /\ FirstFetchSucceeded
        /\ Get(ui.requests[i].body, "updated_at") = ISOString
        /\ \A f \in Unspecified \ {"updated_at"} :
               LET fetched == Get(ui.first.data, "data").o[f] IN
               IF fetched = JNull THEN f \notin DOMAIN ui.requests[i].body.o
               ELSE Get(ui.requests[i].body, f) = fetched

\* A submission sent a PUT whose body carries the identifier and created_at
\* of the fetched recipe, a new updated_at, and no average_rating (null in
\* the fetched recipe).
C21_Witness ==
    /\ ui.submitted
    /\ Puts # {}
    /\ \A i \in Puts :
          /\ Get(ui.requests[i].body, "id") = Num(1)
          /\ Get(ui.requests[i].body, "created_at") = Str("T0")
          /\ Get(ui.requests[i].body, "updated_at") # Str("T0")
          /\ "average_rating" \notin DOMAIN ui.requests[i].body.o

\* The step_number values of steps are 1..n in list order.
NumberedInOrder(steps) ==
    \A i \in DOMAIN steps : Get(steps[i], "step_number") = Num(i)

\* C22: whatever handleAddStep and handleRemoveStep did so far on the steps
\* of the loaded recipe, after a further handleAddStep or handleRemoveStep
\* the step_number values of the form's steps are 1..n in list order.
C22_StepNumbersContiguous ==
    LET steps == Get(ui.formData, "steps").a IN
    /\ \A newStep \in NewSteps :
           Trim(newStep) # "" => NumberedInOrder(StepsAfterAdd(steps, newStep))
    /\ \A index \in DOMAIN steps : NumberedInOrder(StepsAfterRemove(steps, index))

\* The fetches of one hook, in the order they were issued
FetchesOf(hook) == SelectSeq(ui.fetches, LAMBDA f : f.hook = hook)

\* The fetch ended with a successful response
Succeeded(ended) == ~ended.threw /\ Truthy(Get(ended.ret, "success"))

\* C23: once every fetch a hook has issued is completed, the state of the
\* hook holds the response of the fetch issued last, in whatever order the
\* responses arrived: its data after a successful response, its error and no
\* data after a failed request.
C23_LatestFetchWins ==
    /\ LET mine == FetchesOf("useRecipe") IN
       (mine # <<>> /\ \A i \in DOMAIN mine : mine[i].pc = "done") =>
           LET last == mine[Len(mine)]
               ended == GetRecipeById(last.outcome, last.random) IN
           /\ Succeeded(ended) =>
                  ui.single.recipe = UseRecipe(last.outcome, last.random)
           /\ ended.threw =>
                  ui.single = FetchRecipeEnded(ui.single, last.outcome, last.random)
    /\ LET mine == FetchesOf("useRecipes") IN
       (mine # <<>> /\ \A i \in DOMAIN mine : mine[i].pc = "done") =>
           LET last == mine[Len(mine)]
               ended == GetRecipes(last.outcome, last.random) IN
           /\ Succeeded(ended) =>
                  ui.list.recipes =
                      FetchRecipesEnded(ui.list, last.outcome, last.random).recipes
           /\ ended.threw =>
                  ui.list = FetchRecipesEnded(ui.list, last.outcome, last.random)

\* C24: after a successful save on the edit page, and after its cancel
\* button was pressed, the shell does not show the edit page any more.
C24_SaveAndCancelLeaveEditPage ==
    ui.event \in {"saved", "cancel"} => Shown # "edit"

\* The state the remote call of the mutation is asked to produce:
\* unfavoriteRecipe is called for a favorite, favoriteRecipe otherwise
RequestedFavorite(variables) == Bool(~Truthy(variables.isFavorite))

\* C25: while a favorite mutation is in flight, the is_favorite that onMutate
\* has put into the cached recipe is the state the remote call is asked to
\* produce.
C25_OptimisticIsRequestedState ==
    LET variables == ui.mutation.variables
        context == ui.mutation.context IN
    (/\ ui.mutation.pc = "pending"
     /\ Truthy(context.previousRecipe)
     /\ ui.cache.recipe[variables.recipeId] =
            Optimistic(context.previousRecipe, variables))
    => Get(Get(ui.cache.recipe[variables.recipeId], "data"), "is_favorite")
           = RequestedFavorite(variables)

\* isFavorited of useIsFavorited(recipeId) in one instance
ReportedFavorited(h, recipeId) == HasId(ui.hooks[h].favorites.a, recipeId)

\* C26: once no mount effect is left to run, every mounted instance of
\* useFavorites / useIsFavorited reports for every recipe the membership the
\* store holds, whichever instance or function changed it.
C26_InstancesReportStoredMembership ==
    (\A h \in Instances : ~ui.hooks[h].effect) =>
        \A h \in Instances : \A recipeId \in RecipeIds :
            ui.hooks[h].mounted =>
                (ReportedFavorited(h, recipeId)
                    <=> IsRecipeFavorited(store, recipeId).ret.b)

\* C27: any two reviews of the local collection have different identifiers,
\* whichever of the two writers created them and whenever.
C27_ReviewIdsDistinct ==
    LET reviews == StoredReviews(store) IN
    \A i, j \in DOMAIN reviews :
        i # j => Get(reviews[i], "id") # Get(reviews[j], "id")

\* C28: clearAllDrafts removes every draft saved under an identifier that is
\* no singleton (afterwards hasDraft is false and getDraftTimestamp null for
\* each of them, and getAllDraftIds is empty), and leaves the profile, the
\* favorites and the reviews as they were.
C28_ClearAllDraftsRemovesEveryDraft ==
    LET cleared == ClearAllDrafts(store).st IN
    /\ \A d \in ClearedDraftIds :
          ~IsSingleton(d) =>
              /\ HasDraft(cleared, d).ret = Bool(FALSE)
              /\ GetDraftTimestamp(cleared, d).ret = JNull
    /\ GetAllDraftIds(cleared) = {}
    /\ \A key \in {USER_PROFILE_KEY, FAVORITES_KEY, REVIEWS_KEY} :
          cleared[key] = store[key]

\* Every draft record that is no singleton has its timestamp record, and
\* every such timestamp record its draft record
Paired(st) ==
    \A d \in PlainDraftIds :
        (st[DraftKey(d)] # JNull) <=> (st[TimestampKey(DraftKey(d))] # JNull)

\* C29: saveDraft and deleteDraft keep the draft records and their timestamp
\* records paired, also when the storage rejects one of the writes, and a
\* saveDraft that returns false has left the store as it was.
C29_DraftAndTimestampStayPaired ==
    Paired(store) =>
        /\ \A draftData \in DraftValues, draftId \in DraftIds, rejectAt \in 0..2 :
              (rejectAt = 2 => ~IsSingleton(draftId)) =>
                  LET saved == SaveDraft(store, draftData, draftId, rejectAt) IN
                  /\ Paired(saved.st)
                  /\ saved.ret = Bool(FALSE) => saved.st = store
        /\ \A draftId \in DraftIds : Paired(DeleteDraft(store, draftId).st)

\* C30: at most one update issued from the edit page (the GET of the
\* current recipe and the PUT) is in flight at any time, and while one is in
\* flight the page lets no submit event happen.
C30_OneUpdateInFlight ==
    /\ Cardinality(InFlight(ui)) <= 1
    /\ InFlight(ui) # {} => \A path \in SubmitPaths : ~SubmitEventPossible(path, ui)

\* An update is in flight after an earlier one has ended.
C30_Witness ==
    /\ Len(ui.updates) >= 2
    /\ InFlight(ui) = {Len(ui.updates)}
    /\ ui.updateLoading

====
